---- MODULE Spec2Model ----
(***************************************************************************)
(* The block pipeline of exrs (src/src/block/mod.rs): the two-pass chunk   *)
(* writer (ChunkWriter, write_chunks_with), the chunk readers (Reader,     *)
(* AllChunksReader, FilteredChunksReader) and the sequential decompressor. *)
(*                                                                         *)
(* The file is a sequence of bytes.  The sink of the writer and the source *)
(* of the reader are in-memory buffers (std::io::Cursor, as in             *)
(* tests/roundtrip.rs), whose reads and writes fail only at end of file.   *)
(*                                                                         *)
(* Code of the crate that block/mod.rs calls but that lives in other       *)
(* modules (meta, block::chunk, io, compression) is modelled from the      *)
(* documented wire format; these definitions are marked "external" below.  *)
(***************************************************************************)
EXTENDS Integers, Sequences, FiniteSets, TLC

(***************************************************************************)
(* Bounds of the model.                                                    *)
(***************************************************************************)
\* the largest number of headers (layers) of a file
MaxHeaders == 2
\* the largest total number of chunks of a file (sum of header.chunk_count)
MaxTotalChunks == 3
\* the number of further next() calls made on a chunk reader after its last chunk
MaxExtraNext == 2

(***************************************************************************)
(* Program constants.                                                      *)
(***************************************************************************)
\* u64::BYTE_SIZE, the size of one offset table entry
U64_BYTE_SIZE == 8
\* external: the size of an i32 on the wire (layer index, y coordinate, pixel byte count)
I32_BYTE_SIZE == 4
\* external: the per-chunk allowance of Header::max_pixel_file_bytes
CHUNK_OVERHEAD_BYTES == 64

\* the image that is written: the sample of the pixels of line y of layer l
Sample(l, y) == 3 + 2 * y + 16 * l
\* the compression methods of the headers: none, and one lossless codec
Compressions == {"Uncompressed", "RLE"}

(***************************************************************************)
(* Results: Ok, or one of the crate's error kinds with its message.        *)
(***************************************************************************)
Ok == [kind |-> "Ok", msg |-> ""]
Invalid(m) == [kind |-> "Invalid", msg |-> m]
NotSupported(m) == [kind |-> "NotSupported", msg |-> m]
IoError == [kind |-> "Io", msg |-> "unexpected end of file"]
NoResult == [kind |-> "None", msg |-> ""]

(***************************************************************************)
(* Bytes and little-endian integers (external: io::Data).                  *)
(***************************************************************************)
Min(a, b) == IF a < b THEN a ELSE b
Max(a, b) == IF a > b THEN a ELSE b

RECURSIVE SumSeq(_)
SumSeq(s) == IF s = <<>> THEN 0 ELSE Head(s) + SumSeq(Tail(s))

RECURSIVE Flatten(_)
Flatten(ss) == IF ss = <<>> THEN <<>> ELSE Head(ss) \o Flatten(Tail(ss))

Zeros(n) == [k \in 1..n |-> 0]

\* the n little-endian bytes of the non-negative integer v
RECURSIVE ToLE(_, _)
ToLE(v, n) == IF n = 0 THEN <<>> ELSE <<v % 256>> \o ToLE(v \div 256, n - 1)

\* a value no offset of a modelled file reaches: u64 values beyond 31 bits
HugeOffset == 2147483647

\* u64::read: the value of 8 little-endian bytes
U64FromLE(b) ==
    IF b[4] >= 128 \/ \E k \in 5..8 : b[k] # 0 THEN HugeOffset
    ELSE b[1] + 256 * b[2] + 65536 * b[3] + 16777216 * b[4]

\* i32::read: the value of 4 little-endian bytes, two's complement
I32FromLE(b) ==
    b[1] + 256 * b[2] + 65536 * b[3]
      + 16777216 * (IF b[4] >= 128 THEN b[4] - 256 ELSE b[4])

\* the bytes of a buffer from position pos (0-based), n of them
Slice(bytes, pos, n) == SubSeq(bytes, pos + 1, pos + n)

\* Cursor<Vec<u8>>::write at position pos: overwrites, and extends the buffer
WriteAt(bytes, pos, new) ==
    LET end == Max(Len(bytes), pos + Len(new))
    IN  [k \in 1..end |->
            IF k > pos /\ k <= pos + Len(new) THEN new[k - pos]
            ELSE IF k <= Len(bytes) THEN bytes[k] ELSE 0]

(***************************************************************************)
(* Headers and meta data (external: meta::header::Header, meta::MetaData). *)
(* A header is a scan line layer of `width` pixels and chunk_count lines,  *)
(* one line per block, one byte per pixel, at layer position (0, 0).       *)
(***************************************************************************)
Header ==
    [chunk_count : 1..MaxTotalChunks, compression : Compressions, width : {1},
     blocks : {"ScanLines"}]

\* the header lists a file can have
HeaderLists ==
    { hs \in UNION { [1..n -> Header] : n \in 1..MaxHeaders } :
        SumSeq([k \in 1..Len(hs) |-> hs[k].chunk_count]) <= MaxTotalChunks }

TotalChunkCount(hs) == SumSeq([k \in 1..Len(hs) |-> hs[k].chunk_count])

Requirements(hs) == [is_multilayer |-> Len(hs) # 1]
MetaDataOf(hs) == [requirements |-> Requirements(hs), headers |-> hs]

CompressionCode(c) == IF c = "Uncompressed" THEN 0 ELSE 1
CodeCompression(b) == IF b = 0 THEN "Uncompressed" ELSE "RLE"

MAGIC == 118

\* MetaData::write_validating_to_buffered: magic number, headers, a null byte
EncodeMetaData(hs) ==
    <<MAGIC>>
    \o Flatten([k \in 1..Len(hs) |->
            <<hs[k].chunk_count, CompressionCode(hs[k].compression), hs[k].width>>])
    \o <<0>>

\* the headers of a header section, parsed from position pos (after the magic number)
RECURSIVE ParseHeaders(_, _, _)
ParseHeaders(bytes, pos, acc) ==
    IF pos + 1 > Len(bytes) THEN [result |-> IoError, headers |-> acc, end |-> pos]
    ELSE IF bytes[pos + 1] = 0 THEN
        IF acc = <<>> THEN [result |-> Invalid("at least one layer is required"),
                            headers |-> acc, end |-> pos + 1]
        ELSE [result |-> Ok, headers |-> acc, end |-> pos + 1]
    ELSE IF pos + 3 > Len(bytes) THEN [result |-> IoError, headers |-> acc, end |-> pos]
    ELSE IF bytes[pos + 2] > 1 \/ bytes[pos + 3] = 0
        THEN [result |-> Invalid("header"), headers |-> acc, end |-> pos]
    ELSE ParseHeaders(bytes, pos + 3,
            Append(acc, [chunk_count |-> bytes[pos + 1],
                         compression |-> CodeCompression(bytes[pos + 2]),
                         width |-> bytes[pos + 3],
                         blocks |-> "ScanLines"]))

\* MetaData::read_validated_from_buffered_peekable
DecodeMetaData(bytes) ==
    IF Len(bytes) < 1 THEN [result |-> IoError, meta_data |-> MetaDataOf(<<>>), end |-> 0]
    ELSE IF bytes[1] # MAGIC
        THEN [result |-> Invalid("file identifier missing"),
              meta_data |-> MetaDataOf(<<>>), end |-> 1]
    ELSE LET p == ParseHeaders(bytes, 1, <<>>)
         IN  [result |-> p.result, meta_data |-> MetaDataOf(p.headers), end |-> p.end]

\* Header::max_pixel_file_bytes
max_pixel_file_bytes(h) == h.chunk_count * CHUNK_OVERHEAD_BYTES + h.width * h.chunk_count

(***************************************************************************)
(* Blocks and chunks.                                                      *)
(***************************************************************************)
\* BlockIndex of the scan line block y of layer l
BlockIndexOf(hs, l, y) ==
    [layer |-> l, pixel_position |-> <<0, y>>,
     pixel_size |-> <<hs[l + 1].width, 1>>, level |-> <<0, 0>>]

\* the uncompressed block y of layer l of the image
BlockOf(hs, l, y) ==
    [index |-> BlockIndexOf(hs, l, y), data |-> [x \in 1..hs[l + 1].width |-> Sample(l, y)]]

\* the uncompressed blocks of the image: every block of every layer
ValidBlocks(hs) ==
    UNION { { BlockOf(hs, l, y) : y \in 0..(hs[l + 1].chunk_count - 1) } :
            l \in 0..(Len(hs) - 1) }

ScanLineChunk(l, y, bytes) ==
    [layer_index |-> l,
     block |-> [type |-> "ScanLine", y_coordinate |-> y, compressed_pixels |-> bytes]]

\* a chunk that stands for "no chunk" in records that carry none
NoChunk == ScanLineChunk(0, 0, <<>>)

TileChunk(l, coordinates, bytes) ==
    [layer_index |-> l,
     block |-> [type |-> "Tile", coordinates |-> coordinates, compressed_pixels |-> bytes]]

\* the deep data variants of a block
DeepBlockTypes == {"DeepScanLine", "DeepTile"}

DeepScanLineChunk(l, y, bytes) ==
    [layer_index |-> l,
     block |-> [type |-> "DeepScanLine", y_coordinate |-> y, compressed_pixels |-> bytes]]

DeepTileChunk(l, coordinates, bytes) ==
    [layer_index |-> l,
     block |-> [type |-> "DeepTile", coordinates |-> coordinates,
                compressed_pixels |-> bytes]]

\* TileCoordinates
TileCoordinates(tile_index, level_index) ==
    [tile_index |-> tile_index, level_index |-> level_index]

\* Header.layer_size (external): a tiled layer has tiles of one pixel, chunk_count
\* of them in rows of the width of the layer
layer_size(h) ==
    IF h.blocks = "Tiles" THEN <<h.width, h.chunk_count \div h.width>>
    ELSE <<h.width, h.chunk_count>>

\* Header::max_block_pixel_size (external)
max_block_pixel_size(h) == IF h.blocks = "Tiles" THEN <<1, 1>> ELSE <<h.width, 1>>

\* Header::get_block_data_indices (external): the tile coordinates of a block
get_block_data_indices(h, block) ==
    IF block.type = "Tile"
        THEN [result |-> Ok, indices |-> block.coordinates]
    ELSE IF block.type = "ScanLine"
        THEN IF block.y_coordinate < 0
                 THEN [result |-> Invalid("scan block y coordinate"),
                       indices |-> TileCoordinates(<<0, 0>>, <<0, 0>>)]
             ELSE [result |-> Ok,
                   indices |-> TileCoordinates(<<0, block.y_coordinate>>, <<0, 0>>)]
    ELSE [result |-> NotSupported("deep data not supported yet"),
          indices |-> TileCoordinates(<<0, 0>>, <<0, 0>>)]

\* Header::get_absolute_block_pixel_coordinates with IntegerBounds::validate
\* (external): the pixel rectangle of the block at the tile coordinates
get_absolute_block_pixel_coordinates(h, tile) ==
    LET block_size == max_block_pixel_size(h)
        position == <<tile.tile_index[1] * block_size[1], tile.tile_index[2] * block_size[2]>>
    IN  IF tile.level_index # <<0, 0>>
            THEN [result |-> Invalid("level index"), position |-> position, size |-> <<0, 0>>]
        ELSE IF position[1] >= layer_size(h)[1] \/ position[2] >= layer_size(h)[2]
            THEN [result |-> Invalid("block index"), position |-> position, size |-> <<0, 0>>]
        ELSE [result |-> Ok, position |-> position, size |-> block_size]

\* Compression::compress_image_section (external): the lossless codec maps each
\* byte to another and never grows the data
compress_image_section(h, bytes) ==
    IF h.compression = "Uncompressed" THEN bytes
    ELSE [k \in 1..Len(bytes) |-> 255 - bytes[k]]

\* Compression::decompress_image_section (external)
decompress_image_section(h, bytes, size) ==
    IF Len(bytes) # size[1] * size[2]
        THEN [result |-> Invalid("decompressed data"), data |-> <<>>]
    ELSE IF h.compression = "Uncompressed" THEN [result |-> Ok, data |-> bytes]
    ELSE [result |-> Ok, data |-> [k \in 1..Len(bytes) |-> 255 - bytes[k]]]

\* Chunk::write (external): the layer index if the file has several headers, the
\* y coordinate, the byte count of the pixels, the pixels
ChunkBytes(chunk, header_count) ==
    (IF header_count # 1 THEN ToLE(chunk.layer_index, I32_BYTE_SIZE) ELSE <<>>)
    \o ToLE(chunk.block.y_coordinate, I32_BYTE_SIZE)
    \o ToLE(Len(chunk.block.compressed_pixels), I32_BYTE_SIZE)
    \o chunk.block.compressed_pixels

\* Chunk::read (external) at byte position pos: the chunk or the error, and the
\* position reading stopped at
ChunkRead(bytes, pos, meta_data) ==
    LET multi == meta_data.requirements.is_multilayer
        fail(e, p) == [result |-> e, chunk |-> NoChunk, pos |-> p]
        eof == fail(IoError, Max(pos, Len(bytes)))
        ypos == IF multi THEN pos + I32_BYTE_SIZE ELSE pos
        spos == ypos + I32_BYTE_SIZE
        dpos == spos + I32_BYTE_SIZE
    IN  IF dpos > Len(bytes) THEN eof
        ELSE LET layer == IF multi THEN I32FromLE(Slice(bytes, pos, I32_BYTE_SIZE)) ELSE 0
                 y == I32FromLE(Slice(bytes, ypos, I32_BYTE_SIZE))
                 size == I32FromLE(Slice(bytes, spos, I32_BYTE_SIZE))
             IN  IF layer < 0 \/ layer >= Len(meta_data.headers)
                     THEN fail(Invalid("chunk data part number"), ypos)
                 ELSE IF size < 0 THEN fail(Invalid("scan line block sample count"), dpos)
                 ELSE IF dpos + size > Len(bytes) THEN eof
                 ELSE [result |-> Ok,
                       chunk |-> ScanLineChunk(layer, y, Slice(bytes, dpos, size)),
                       pos |-> dpos + size]

\* compress_to_chunk, had it taken the y coordinate from pixel_position.x()
compress_to_chunk_x(block, hs) ==
    LET header == hs[block.index.layer + 1]
    IN  ScanLineChunk(block.index.layer, block.index.pixel_position[1],
            compress_image_section(header, block.data))

\* compress_to_chunk, had it swapped the two components of the tile index
compress_to_chunk_transposed(block, hs) ==
    LET header == hs[block.index.layer + 1]
        position == block.index.pixel_position
        compressed_data == compress_image_section(header, block.data)
    IN  IF header.blocks = "ScanLines"
            THEN ScanLineChunk(block.index.layer, position[2], compressed_data)
        ELSE TileChunk(block.index.layer,
                       TileCoordinates(<<position[2], position[1]>>, block.index.level),
                       compressed_data)

\* UncompressedBlock::compress_to_chunk, for a block of the headers
compress_to_chunk(block, hs) ==
    LET header == hs[block.index.layer + 1]
        position == block.index.pixel_position
        tile_coordinates ==
            TileCoordinates(<<position[1] \div max_block_pixel_size(header)[1],
                              position[2] \div max_block_pixel_size(header)[2]>>,
                            block.index.level)
        compressed_data == compress_image_section(header, block.data)
    IN  IF header.blocks = "ScanLines"
            THEN ScanLineChunk(block.index.layer, position[2], compressed_data)
        ELSE TileChunk(block.index.layer, tile_coordinates, compressed_data)

NoBlock == [index |-> [layer |-> 0, pixel_position |-> <<0, 0>>,
                       pixel_size |-> <<0, 0>>, level |-> <<0, 0>>], data |-> <<>>]

\* the result of decompress_chunk that is the error e
Failed(e) == [result |-> e, block |-> NoBlock]

\* decompress_chunk from the match on chunk.block: the pixels are decompressed
\* for the rectangle absolute_indices, a deep block is rejected
decompress_block(chunk, header, tile_data_indices, absolute_indices) ==
    IF chunk.block.type \in DeepBlockTypes
        THEN Failed(NotSupported("deep data not supported yet"))
    ELSE IF decompress_image_section(header, chunk.block.compressed_pixels,
                                     absolute_indices.size).result # Ok
        THEN Failed(decompress_image_section(header, chunk.block.compressed_pixels,
                                             absolute_indices.size).result)
    ELSE [result |-> Ok,
          block |-> [index |-> [layer |-> chunk.layer_index,
                                pixel_position |-> absolute_indices.position,
                                pixel_size |-> absolute_indices.size,
                                level |-> tile_data_indices.level_index],
                     data |-> decompress_image_section(header, chunk.block.compressed_pixels,
                                                       absolute_indices.size).data]]

\* decompress_chunk after the lookup of the header
decompress_in_header(chunk, header, tile_data_indices) ==
    IF tile_data_indices.result # Ok THEN Failed(tile_data_indices.result)
    ELSE IF get_absolute_block_pixel_coordinates(header, tile_data_indices.indices).result # Ok
        THEN Failed(get_absolute_block_pixel_coordinates(header,
                                                         tile_data_indices.indices).result)
    ELSE decompress_block(chunk, header, tile_data_indices.indices,
             get_absolute_block_pixel_coordinates(header, tile_data_indices.indices))

\* decompress_chunk, had it taken a deep block for the flat block of the same place
decompress_chunk_deep_as_flat(chunk, meta_data, pedantic) ==
    IF chunk.layer_index >= Len(meta_data.headers)
        THEN Failed(Invalid("chunk layer index"))
    ELSE LET flat == [chunk EXCEPT !.block.type =
                         IF @ = "DeepScanLine" THEN "ScanLine"
                         ELSE IF @ = "DeepTile" THEN "Tile" ELSE @]
         IN  decompress_in_header(flat, meta_data.headers[chunk.layer_index + 1],
                 get_block_data_indices(meta_data.headers[chunk.layer_index + 1], flat.block))

\* UncompressedBlock::decompress_chunk
decompress_chunk(chunk, meta_data, pedantic) ==
    IF chunk.layer_index >= Len(meta_data.headers)
        THEN Failed(Invalid("chunk layer index"))
    ELSE decompress_in_header(chunk, meta_data.headers[chunk.layer_index + 1],
             get_block_data_indices(meta_data.headers[chunk.layer_index + 1], chunk.block))

(***************************************************************************)
(* The chunk writer.                                                       *)
(***************************************************************************)
\* the writer before write_chunks_with has built it, and after it is consumed
NoWriter ==
    [header_count |-> 0, byte_position |-> 0, chunk_count |-> 0,
     chunk_indices_byte_location |-> [start |-> 0, end |-> 0],
     chunk_indices_increasing_y |-> <<>>]

\* new_for_buffered, had it not skipped the offset tables: the writer stands at
\* their start
new_for_buffered_tables_not_skipped(hs) ==
    LET meta_bytes == EncodeMetaData(hs)
        offset_table_size == SumSeq([k \in 1..Len(hs) |-> hs[k].chunk_count])
        offset_table_start_byte == Len(meta_bytes)
        offset_table_end_byte == offset_table_start_byte + offset_table_size * U64_BYTE_SIZE
    IN  [sink |-> meta_bytes,
         writer |->
            [header_count |-> Len(hs),
             byte_position |-> offset_table_start_byte,
             chunk_count |-> offset_table_size,
             chunk_indices_byte_location |->
                [start |-> offset_table_start_byte, end |-> offset_table_end_byte],
             chunk_indices_increasing_y |->
                [k \in 1..Len(hs) |-> Zeros(hs[k].chunk_count)]]]

\* ChunkWriter::new_for_buffered: the meta data, then the zeroed offset tables
new_for_buffered(hs) ==
    LET meta_bytes == EncodeMetaData(hs)
        offset_table_size == SumSeq([k \in 1..Len(hs) |-> hs[k].chunk_count])
        offset_table_start_byte == Len(meta_bytes)
        offset_table_end_byte == offset_table_start_byte + offset_table_size * U64_BYTE_SIZE
    IN  [sink |-> meta_bytes \o Zeros(offset_table_end_byte - offset_table_start_byte),
         writer |->
            [header_count |-> Len(hs),
             byte_position |-> offset_table_end_byte,
             chunk_count |-> offset_table_size,
             chunk_indices_byte_location |->
                [start |-> offset_table_start_byte, end |-> offset_table_end_byte],
             chunk_indices_increasing_y |->
                [k \in 1..Len(hs) |-> Zeros(hs[k].chunk_count)]]]

Panic(m) == [kind |-> "Panic", msg |-> m]

\* the last two statements of write_chunk: record the byte position in the slot,
\* then serialize the chunk
record_and_write(w, sink, index_in_header_increasing_y, chunk) ==
    LET bytes == ChunkBytes(chunk, w.header_count)
    IN  [writer |->
            [w EXCEPT
                !.chunk_indices_increasing_y[chunk.layer_index + 1]
                    [index_in_header_increasing_y + 1] = w.byte_position,
                !.byte_position = w.byte_position + Len(bytes)],
         sink |-> WriteAt(sink, w.byte_position, bytes),
         result |-> Ok]

\* write_chunk, had it recorded the byte position after serializing the chunk
write_chunk_offset_after(w, sink, index_in_header_increasing_y, chunk) ==
    LET header_chunk_indices == w.chunk_indices_increasing_y[chunk.layer_index + 1]
        r == record_and_write(w, sink, index_in_header_increasing_y, chunk)
    IN  IF index_in_header_increasing_y >= Len(header_chunk_indices)
            THEN [writer |-> w, sink |-> sink, result |-> Invalid("too large chunk index")]
        ELSE IF header_chunk_indices[index_in_header_increasing_y + 1] # 0
            THEN [writer |-> w, sink |-> sink,
                  result |-> Invalid("chunk at this index is already written")]
        ELSE [r EXCEPT !.writer.chunk_indices_increasing_y[chunk.layer_index + 1]
                            [index_in_header_increasing_y + 1] = r.writer.byte_position]

\* write_chunk, had it not checked whether the slot is written
write_chunk_overwrite(w, sink, index_in_header_increasing_y, chunk) ==
    LET header_chunk_indices == w.chunk_indices_increasing_y[chunk.layer_index + 1]
    IN  IF index_in_header_increasing_y >= Len(header_chunk_indices)
            THEN [writer |-> w, sink |-> sink, result |-> Invalid("too large chunk index")]
        ELSE record_and_write(w, sink, index_in_header_increasing_y, chunk)

\* write_chunk, had it compared the index with > in place of >=
write_chunk_off_by_one(w, sink, index_in_header_increasing_y, chunk) ==
    LET header_chunk_indices == w.chunk_indices_increasing_y[chunk.layer_index + 1]
    IN  IF index_in_header_increasing_y > Len(header_chunk_indices)
            THEN [writer |-> w, sink |-> sink, result |-> Invalid("too large chunk index")]
        ELSE IF index_in_header_increasing_y = Len(header_chunk_indices)
            THEN [writer |-> w, sink |-> sink, result |-> Panic("index out of bounds")]
        ELSE IF header_chunk_indices[index_in_header_increasing_y + 1] # 0
            THEN [writer |-> w, sink |-> sink,
                  result |-> Invalid("chunk at this index is already written")]
        ELSE record_and_write(w, sink, index_in_header_increasing_y, chunk)

\* write_chunk, had it recorded the byte position before checking the slot
write_chunk_record_first(w, sink, index_in_header_increasing_y, chunk) ==
    LET header_chunk_indices == w.chunk_indices_increasing_y[chunk.layer_index + 1]
    IN  IF index_in_header_increasing_y >= Len(header_chunk_indices)
            THEN [writer |-> w, sink |-> sink, result |-> Invalid("too large chunk index")]
        ELSE IF header_chunk_indices[index_in_header_increasing_y + 1] # 0
            THEN [writer |-> [w EXCEPT !.chunk_indices_increasing_y[chunk.layer_index + 1]
                                          [index_in_header_increasing_y + 1] = w.byte_position],
                  sink |-> sink,
                  result |-> Invalid("chunk at this index is already written")]
        ELSE record_and_write(w, sink, index_in_header_increasing_y, chunk)

\* write_chunk, had it tested the first slot of the header for the slot of the
\* index
write_chunk_tests_first_slot(w, sink, index_in_header_increasing_y, chunk) ==
    LET header_chunk_indices == w.chunk_indices_increasing_y[chunk.layer_index + 1]
    IN  IF index_in_header_increasing_y >= Len(header_chunk_indices)
            THEN [writer |-> w, sink |-> sink, result |-> Invalid("too large chunk index")]
        ELSE IF header_chunk_indices[1] # 0
            THEN [writer |-> w, sink |-> sink,
                  result |-> Invalid("chunk at this index is already written")]
        ELSE record_and_write(w, sink, index_in_header_increasing_y, chunk)

\* ChunkWriter::write_chunk
write_chunk(w, sink, index_in_header_increasing_y, chunk) ==
    IF chunk.layer_index >= Len(w.chunk_indices_increasing_y)
        THEN [writer |-> w, sink |-> sink, result |-> Panic("index out of bounds")]
    ELSE
    LET header_chunk_indices == w.chunk_indices_increasing_y[chunk.layer_index + 1]
    IN  IF index_in_header_increasing_y >= Len(header_chunk_indices)
            THEN [writer |-> w, sink |-> sink, result |-> Invalid("too large chunk index")]
        ELSE IF header_chunk_indices[index_in_header_increasing_y + 1] # 0
            THEN [writer |-> w, sink |-> sink,
                  result |-> Invalid("chunk at this index is already written")]
        ELSE record_and_write(w, sink, index_in_header_increasing_y, chunk)

\* some slot of the offset tables of the writer is zero
SomeSlotZero(w) ==
    \E l \in 1..Len(w.chunk_indices_increasing_y) :
        \E i \in 1..Len(w.chunk_indices_increasing_y[l]) :
            w.chunk_indices_increasing_y[l][i] = 0

\* the second part of complete_meta_data: seek back to the start of the offset
\* tables and write every table
write_offset_tables(w, sink) ==
    LET tables == Flatten([l \in 1..Len(w.chunk_indices_increasing_y) |->
                      Flatten([i \in 1..Len(w.chunk_indices_increasing_y[l]) |->
                          ToLE(w.chunk_indices_increasing_y[l][i], U64_BYTE_SIZE)])])
    IN  [sink |-> WriteAt(sink, w.chunk_indices_byte_location.start, tables),
         byte_position |-> w.chunk_indices_byte_location.start + Len(tables),
         result |-> Ok]

\* complete_meta_data, had it not checked the slots
complete_meta_data_unchecked(w, sink) == write_offset_tables(w, sink)

\* complete_meta_data, had it written the tables before checking the slots
complete_meta_data_write_first(w, sink) ==
    IF SomeSlotZero(w)
        THEN [write_offset_tables(w, sink) EXCEPT
                !.result = Invalid("some chunks are not written yet")]
    ELSE write_offset_tables(w, sink)

\* ChunkWriter::complete_meta_data
complete_meta_data(w, sink) ==
    IF SomeSlotZero(w)
        THEN [sink |-> sink, byte_position |-> w.byte_position,
              result |-> Invalid("some chunks are not written yet")]
    ELSE write_offset_tables(w, sink)

(***************************************************************************)
(* The chunk readers.                                                      *)
(***************************************************************************)
\* MetaData::read_offset_tables (external) at byte position pos: one u64 for
\* each chunk of each header
read_offset_tables(bytes, pos, hs) ==
    LET count == TotalChunkCount(hs)
        before(l) == SumSeq([k \in 1..(l - 1) |-> hs[k].chunk_count])
    IN  IF pos + count * U64_BYTE_SIZE > Len(bytes)
            THEN [result |-> IoError, offset_tables |-> <<>>, pos |-> Max(pos, Len(bytes))]
        ELSE [result |-> Ok,
              offset_tables |->
                [l \in 1..Len(hs) |->
                    [i \in 1..hs[l].chunk_count |->
                        U64FromLE(Slice(bytes,
                            pos + (before(l) + i - 1) * U64_BYTE_SIZE, U64_BYTE_SIZE))]],
              pos |-> pos + count * U64_BYTE_SIZE]

\* MetaData::skip_offset_tables (external): the number of chunks of the file
skip_offset_tables(bytes, pos, hs) ==
    LET count == TotalChunkCount(hs)
    IN  IF pos + count * U64_BYTE_SIZE > Len(bytes)
            THEN [result |-> IoError, count |-> 0, pos |-> Max(pos, Len(bytes))]
        ELSE [result |-> Ok, count |-> count, pos |-> pos + count * U64_BYTE_SIZE]

\* validate_offset_tables, had it rejected the offset that equals end_byte
validate_offset_tables_exclusive(hs, offset_tables, chunks_start_byte) ==
    LET max_pixel_bytes == SumSeq([k \in 1..Len(hs) |-> max_pixel_file_bytes(hs[k])])
        end_byte == chunks_start_byte + max_pixel_bytes
        is_invalid ==
            \E l \in 1..Len(offset_tables) : \E i \in 1..Len(offset_tables[l]) :
                \/ offset_tables[l][i] < chunks_start_byte
                \/ offset_tables[l][i] >= end_byte
    IN  IF is_invalid THEN Invalid("offset table") ELSE Ok

\* validate_offset_tables
validate_offset_tables(hs, offset_tables, chunks_start_byte) ==
    LET max_pixel_bytes == SumSeq([k \in 1..Len(hs) |-> max_pixel_file_bytes(hs[k])])
        end_byte == chunks_start_byte + max_pixel_bytes
        is_invalid ==
            \E l \in 1..Len(offset_tables) : \E i \in 1..Len(offset_tables[l]) :
                \/ offset_tables[l][i] < chunks_start_byte
                \/ offset_tables[l][i] > end_byte
    IN  IF is_invalid THEN Invalid("offset table") ELSE Ok

\* slice::sort_unstable: the elements in ascending order
RECURSIVE Insert(_, _)
Insert(x, s) ==
    IF s = <<>> THEN <<x>>
    ELSE IF x <= Head(s) THEN <<x>> \o s
    ELSE <<Head(s)>> \o Insert(x, Tail(s))

RECURSIVE sort_unstable(_)
sort_unstable(s) == IF s = <<>> THEN <<>> ELSE Insert(Head(s), sort_unstable(Tail(s)))

\* the reader before it is created; on_progress tells whether the chunk reader is
\* wrapped in an OnProgressChunksReader, whose fields are decoded_chunks and
\* callback (the arguments the callback was called with so far)
NoReader ==
    [kind |-> "None", meta_data |-> MetaDataOf(<<>>), pos |-> 0, pedantic |-> FALSE,
     remaining_chunks |-> [start |-> 0, end |-> 0],
     expected_filtered_chunk_count |-> 0,
     remaining_filtered_chunk_indices |-> <<>>,
     on_progress |-> FALSE, decoded_chunks |-> 0, callback |-> <<>>]

\* Reader::read_from_buffered
read_from_buffered(bytes) ==
    LET m == DecodeMetaData(bytes)
    IN  [result |-> m.result,
         reader |-> IF m.result = Ok
                    THEN [NoReader EXCEPT !.kind = "Reader",
                                          !.meta_data = m.meta_data, !.pos = m.end]
                    ELSE NoReader]

\* Reader::all_chunks
all_chunks(r, bytes, pedantic) ==
    LET hs == r.meta_data.headers
        fail(e) == [result |-> e, reader |-> NoReader]
        make(count, pos) ==
            [result |-> Ok,
             reader |-> [r EXCEPT !.kind = "AllChunksReader",
                                  !.remaining_chunks = [start |-> 0, end |-> count],
                                  !.pos = pos, !.pedantic = pedantic]]
    IN  IF pedantic THEN
            LET t == read_offset_tables(bytes, r.pos, hs)
            IN  IF t.result # Ok THEN fail(t.result)
                ELSE LET v == validate_offset_tables(hs, t.offset_tables, t.pos)
                     IN  IF v # Ok THEN fail(v)
                         ELSE make(SumSeq([l \in 1..Len(t.offset_tables) |->
                                              Len(t.offset_tables[l])]), t.pos)
        ELSE
            LET k == skip_offset_tables(bytes, r.pos, hs)
            IN  IF k.result # Ok THEN fail(k.result) ELSE make(k.count, k.pos)

\* the blocks of the headers in the order filter_chunks enumerates them: headers in
\* order, Header::blocks_increasing_y_order within each (external), as pairs of
\* header index and block index
BlocksIncreasingY(hs) ==
    Flatten([l \in 1..Len(hs) |-> [i \in 1..hs[l].chunk_count |-> <<l - 1, i - 1>>]])

\* the BlockIndex for block number 0 of the layer, whatever the block is
filter_block_first(hs, header_index, block_index) ==
    [layer |-> header_index, level |-> <<0, 0>>,
     pixel_position |-> <<0, 0>>, pixel_size |-> <<hs[header_index + 1].width, 1>>]

\* the BlockIndex that filter_chunks builds for a block of blocks_increasing_y_order
filter_block(hs, header_index, block_index) ==
    [layer |-> header_index,
     level |-> <<0, 0>>,
     pixel_position |->
         get_absolute_block_pixel_coordinates(hs[header_index + 1],
             TileCoordinates(<<0, block_index>>, <<0, 0>>)).position,
     pixel_size |->
         get_absolute_block_pixel_coordinates(hs[header_index + 1],
             TileCoordinates(<<0, block_index>>, <<0, 0>>)).size]

\* the block indices that the loop of filter_chunks hands to the filter, in order
predicate_calls(hs) ==
    [k \in 1..Len(BlocksIncreasingY(hs)) |->
        filter_block(hs, BlocksIncreasingY(hs)[k][1], BlocksIncreasingY(hs)[k][2])]

\* the offsets of the blocks for which the filter returns true, in block order
RECURSIVE SelectOffsets(_, _, _)
SelectOffsets(blocks, offset_tables, filter) ==
    IF blocks = <<>> THEN <<>>
    ELSE LET b == Head(blocks)
             rest == SelectOffsets(Tail(blocks), offset_tables, filter)
         IN  IF b \in filter THEN <<offset_tables[b[1] + 1][b[2] + 1]>> \o rest ELSE rest

\* two neighbours of the sequence are equal
NeighboursEqual(s) == \E k \in 1..(Len(s) - 1) : s[k] = s[k + 1]

\* the FilteredChunksReader that filter_chunks returns for the offsets
FilteredReader(r, pos, pedantic, filtered_offsets) ==
    [result |-> Ok,
     reader |-> [r EXCEPT !.kind = "FilteredChunksReader",
                          !.expected_filtered_chunk_count = Len(filtered_offsets),
                          !.remaining_filtered_chunk_indices = filtered_offsets,
                          !.pos = pos, !.pedantic = pedantic]]

\* filter_chunks, had it looked for equal neighbours before sorting the offsets
filter_chunks_check_before_sort(r, bytes, pedantic, filter) ==
    LET hs == r.meta_data.headers
        fail(e) == [result |-> e, reader |-> NoReader]
        t == read_offset_tables(bytes, r.pos, hs)
    IN  IF t.result # Ok THEN fail(t.result)
        ELSE LET v == IF pedantic THEN validate_offset_tables(hs, t.offset_tables, t.pos)
                      ELSE Ok
                 selected == SelectOffsets(BlocksIncreasingY(hs), t.offset_tables, filter)
             IN  IF v # Ok THEN fail(v)
                 ELSE IF pedantic /\ NeighboursEqual(selected)
                     THEN fail(Invalid("chunk offset table"))
                 ELSE FilteredReader(r, t.pos, pedantic, sort_unstable(selected))

\* filter_chunks, had it not sorted the offsets
filter_chunks_unsorted(r, bytes, pedantic, filter) ==
    LET hs == r.meta_data.headers
        fail(e) == [result |-> e, reader |-> NoReader]
        t == read_offset_tables(bytes, r.pos, hs)
    IN  IF t.result # Ok THEN fail(t.result)
        ELSE LET v == IF pedantic THEN validate_offset_tables(hs, t.offset_tables, t.pos)
                      ELSE Ok
                 selected == SelectOffsets(BlocksIncreasingY(hs), t.offset_tables, filter)
             IN  IF v # Ok THEN fail(v)
                 ELSE IF pedantic /\ NeighboursEqual(selected)
                     THEN fail(Invalid("chunk offset table"))
                 ELSE FilteredReader(r, t.pos, pedantic, selected)

\* Reader::filter_chunks; the filter is the set of blocks it returns true for
filter_chunks(r, bytes, pedantic, filter) ==
    LET hs == r.meta_data.headers
        fail(e) == [result |-> e, reader |-> NoReader]
        t == read_offset_tables(bytes, r.pos, hs)
    IN  IF t.result # Ok THEN fail(t.result)
        ELSE LET v == IF pedantic THEN validate_offset_tables(hs, t.offset_tables, t.pos)
                      ELSE Ok
                 filtered_offsets ==
                     sort_unstable(SelectOffsets(BlocksIncreasingY(hs),
                                                 t.offset_tables, filter))
             IN  IF v # Ok THEN fail(v)
                 ELSE IF pedantic /\ NeighboursEqual(filtered_offsets)
                     THEN fail(Invalid("chunk offset table"))
                 ELSE FilteredReader(r, t.pos, pedantic, filtered_offsets)

\* an item of a chunk reader: Some(Ok(chunk)), Some(Err(error)) or None
SomeOk(c) == [kind |-> "Ok", msg |-> "", chunk |-> c]
SomeErr(e) == [kind |-> e.kind, msg |-> e.msg, chunk |-> NoChunk]
None == [kind |-> "None", msg |-> "", chunk |-> NoChunk]

\* AllChunksReader::next, had it not looked at the pedantic flag
AllChunksReader_next_always_pedantic(r, bytes) ==
    IF r.remaining_chunks.start < r.remaining_chunks.end THEN
        LET c == ChunkRead(bytes, r.pos, r.meta_data)
        IN  [reader |-> [r EXCEPT !.remaining_chunks.start = @ + 1, !.pos = c.pos],
             item |-> IF c.result = Ok THEN SomeOk(c.chunk) ELSE SomeErr(c.result),
             at |-> r.pos]
    ELSE IF r.pos < Len(bytes)
        THEN [reader |-> r, item |-> SomeErr(Invalid("end of file expected")), at |-> r.pos]
    ELSE [reader |-> r, item |-> None, at |-> r.pos]

\* AllChunksReader::next
AllChunksReader_next(r, bytes) ==
    IF r.remaining_chunks.start < r.remaining_chunks.end THEN
        LET c == ChunkRead(bytes, r.pos, r.meta_data)
        IN  [reader |-> [r EXCEPT !.remaining_chunks.start = @ + 1, !.pos = c.pos],
             item |-> IF c.result = Ok THEN SomeOk(c.chunk) ELSE SomeErr(c.result),
             at |-> r.pos]
    ELSE IF r.pedantic /\ r.pos < Len(bytes)
        THEN [reader |-> r, item |-> SomeErr(Invalid("end of file expected")), at |-> r.pos]
    ELSE [reader |-> r, item |-> None, at |-> r.pos]

\* FilteredChunksReader::next
FilteredChunksReader_next(r, bytes) ==
    IF r.remaining_filtered_chunk_indices # <<>> THEN
        LET next_chunk_location == Head(r.remaining_filtered_chunk_indices)
            c == ChunkRead(bytes, next_chunk_location, r.meta_data)
        IN  [reader |-> [r EXCEPT !.remaining_filtered_chunk_indices = Tail(@),
                                  !.pos = c.pos],
             item |-> IF c.result = Ok THEN SomeOk(c.chunk) ELSE SomeErr(c.result),
             at |-> next_chunk_location]
    ELSE [reader |-> r, item |-> None, at |-> r.pos]

\* ChunksReader::expected_chunk_count
expected_chunk_count(r) ==
    IF r.kind = "AllChunksReader" THEN r.remaining_chunks.end
    ELSE r.expected_filtered_chunk_count

\* Iterator::next of the reader that an OnProgressChunksReader wraps
chunks_reader_next(r, bytes) ==
    IF r.kind = "AllChunksReader" THEN AllChunksReader_next(r, bytes)
    ELSE FilteredChunksReader_next(r, bytes)

\* an f64 that is the quotient of two counts, as the pair of the counts
Ratio(n, d) == <<n, d>>
F64_ONE == Ratio(1, 1)
F64_ZERO == Ratio(0, 1)
\* comparison of two such f64 values; a quotient with divisor 0 is NaN or infinite
F64Eq(x, y) == x[2] > 0 /\ y[2] > 0 /\ x[1] * y[2] = y[1] * x[2]
F64Leq(x, y) == x[2] > 0 /\ y[2] > 0 /\ x[1] * y[2] <= y[1] * x[2]

\* ChunksReader::on_progress: wrap the reader
on_progress(r) == [r EXCEPT !.on_progress = TRUE, !.decoded_chunks = 0, !.callback = <<>>]

\* the item n of the wrapped reader r as OnProgressChunksReader::next returns it,
\* had next reported the count after the increment
reported_count_after(r, n) ==
    IF n.item.kind # "None"
        THEN [n EXCEPT !.reader.callback =
                           Append(@, Ratio(r.decoded_chunks + 1, expected_chunk_count(r))),
                       !.reader.decoded_chunks = @ + 1]
    ELSE [n EXCEPT !.reader.callback = Append(@, F64_ONE)]

\* the item n of the wrapped reader r as OnProgressChunksReader::next returns it:
\* the callback is called, and a chunk is counted
reported(r, n) ==
    IF n.item.kind # "None"
        THEN [n EXCEPT !.reader.callback =
                           Append(@, Ratio(r.decoded_chunks, expected_chunk_count(r))),
                       !.reader.decoded_chunks = @ + 1]
    ELSE [n EXCEPT !.reader.callback = Append(@, F64_ONE)]

\* OnProgressChunksReader::next
OnProgressChunksReader_next(r, bytes) == reported(r, chunks_reader_next(r, bytes))

\* ChunksReader::read_next_chunk of any reader
read_next_chunk(r, bytes) ==
    IF r.on_progress THEN OnProgressChunksReader_next(r, bytes)
    ELSE chunks_reader_next(r, bytes)

\* Iterator::size_hint (ExactSizeIterator::len) of either reader
size_hint(r) ==
    IF r.kind = "AllChunksReader" THEN r.remaining_chunks.end - r.remaining_chunks.start
    ELSE Len(r.remaining_filtered_chunk_indices)

(***************************************************************************)
(* The sequential decompressor.                                            *)
(***************************************************************************)
\* the closure of SequentialBlockDecompressor::decompress_next_block on the item n
\* that the reader returned: the reader after the call, the chunk item read and
\* where, and the item returned
decompress_item(n, pedantic) ==
    IF n.item.kind = "None"
        THEN [reader |-> n.reader, chunk_item |-> n.item, at |-> n.at,
              result |-> NoResult, block |-> NoBlock]
    ELSE IF n.item.kind # "Ok"
        THEN [reader |-> n.reader, chunk_item |-> n.item, at |-> n.at,
              result |-> [kind |-> n.item.kind, msg |-> n.item.msg], block |-> NoBlock]
    ELSE [reader |-> n.reader, chunk_item |-> n.item, at |-> n.at]
         @@ decompress_chunk(n.item.chunk, n.reader.meta_data, pedantic)

\* SequentialBlockDecompressor::decompress_next_block
decompress_next_block(r, bytes, pedantic) ==
    decompress_item(read_next_chunk(r, bytes), pedantic)

(***************************************************************************)
(* State.                                                                  *)
(***************************************************************************)
VARIABLES
    headers,    \* the headers given to write_chunks_with, or those of the input file
    phase,      \* "writing", "failed", "file", "reader", "chunks" or "done"
    writer,     \* the ChunkWriter
    file,       \* the bytes of the sink of the writer, and of the source of the reader
    written,    \* the successful write_chunk calls so far, in call order
    call,       \* the latest call that built or changed the writer or a reader
    reader,     \* the Reader, AllChunksReader or FilteredChunksReader
    consumer,   \* who pulls the chunks: the caller's loop, or decompress_sequential
    emitted,    \* the items the chunk reader has returned so far, each with the
                \* byte position it was read at
    blocks,     \* the blocks passed to insert_block, or yielded by a decompressor
    pool,       \* the worker pool and channel of a parallel driver, and where the
                \* driver stands
    progress_writer,    \* the OnProgressChunkWriter
    blocks_writer,      \* the blocks given to a BlocksWriter and what it did with them
    pure        \* the input and the result of a function applied on its own

\* the variables of the parallel drivers, the progress writer, the blocks writer
\* and the functions on their own
added == <<pool, progress_writer, blocks_writer, pure>>

vars == <<headers, phase, writer, file, written, call, reader, consumer, emitted, blocks,
          pool, progress_writer, blocks_writer, pure>>

NoCall ==
    [op |-> "none", layer |-> 0, index |-> 0, pedantic |-> FALSE, filter |-> {},
     predicate_calls |-> <<>>, result |-> NoResult]
\* insert_fails_at is the call of insert_block at which the closure of the caller
\* returns an error (0: at none), inserted the number of its calls so far
NoConsumer ==
    [kind |-> "None", pedantic |-> FALSE, result |-> NoResult,
     insert_fails_at |-> 0, inserted |-> 0]

\* no pool: running holds the spawned tasks that have not sent their result yet,
\* channel the results sent and not yet received, dropped tells that the driver
\* and its receiver are gone, undelivered what became of the tasks that sent after
NoPool ==
    [running |-> {}, channel |-> <<>>, spawned |-> 0, currently_running |-> 0,
     max_currently_running |-> 0, pc |-> "none", chunk |-> NoChunk,
     threads |-> 0, dropped |-> FALSE, undelivered |-> {}]

\* no OnProgressChunkWriter
NoProgressWriter == [written_chunks |-> 0, on_progress |-> <<>>]

\* no BlocksWriter
NoBlocksWriter == [kind |-> "None"]

\* no function applied
NoPure == [op |-> "none"]

\* the added variables when nothing of them is in use
AddedInit ==
    /\ pool = NoPool
    /\ progress_writer = NoProgressWriter
    /\ blocks_writer = NoBlocksWriter
    /\ pure = NoPure

\* write_chunks_with has built the writer for some headers
Init ==
    /\ headers \in HeaderLists
    /\ phase = "writing"
    /\ writer = new_for_buffered(headers).writer
    /\ file = new_for_buffered(headers).sink
    /\ written = <<>>
    /\ call = NoCall
    /\ reader = NoReader
    /\ consumer = NoConsumer
    /\ emitted = <<>>
    /\ blocks = <<>>
    /\ AddedInit

(***************************************************************************)
(* Writing.                                                                *)
(***************************************************************************)
\* the closure of write_chunks_with compresses a block of the headers and writes
\* the chunk at some index (BlocksWriter::compress_block)
WriteChunk ==
    /\ phase = "writing"
    /\ \E index_in_header_increasing_y \in 0..MaxTotalChunks : \E b \in ValidBlocks(headers) :
         LET chunk == compress_to_chunk(b, headers)
             w == write_chunk(writer, file, index_in_header_increasing_y, chunk)
         IN  /\ writer' = w.writer
             /\ file' = w.sink
             /\ written' = IF w.result = Ok
                           THEN Append(written,
                                   [index |-> index_in_header_increasing_y, block |-> b,
                                    chunk |-> chunk, offset |-> writer.byte_position])
                           ELSE written
             /\ call' = [NoCall EXCEPT !.op = "write_chunk", !.layer = chunk.layer_index,
                                       !.index = index_in_header_increasing_y,
                                       !.result = w.result]
    /\ UNCHANGED <<headers, phase, reader, consumer, emitted, blocks>>
    /\ UNCHANGED added

\* the closure of write_chunks_with has returned Ok: complete_meta_data
CompleteMetaData ==
    /\ phase = "writing"
    /\ LET c == complete_meta_data(writer, file)
       IN  /\ file' = c.sink
           /\ writer' = [writer EXCEPT !.byte_position = c.byte_position]
           /\ call' = [NoCall EXCEPT !.op = "complete_meta_data", !.result = c.result]
           /\ phase' = IF c.result = Ok THEN "file" ELSE "failed"
    /\ UNCHANGED <<headers, written, reader, consumer, emitted, blocks>>
    /\ UNCHANGED added

(***************************************************************************)
(* Reading.                                                                *)
(***************************************************************************)
ReadFromBuffered ==
    /\ phase = "file"
    /\ LET r == read_from_buffered(file)
       IN  /\ reader' = r.reader
           /\ call' = [NoCall EXCEPT !.op = "read_from_buffered", !.result = r.result]
           /\ phase' = IF r.result = Ok THEN "reader" ELSE "done"
    /\ UNCHANGED <<headers, writer, file, written, consumer, emitted, blocks>>
    /\ UNCHANGED added

AllChunks ==
    /\ phase = "reader"
    /\ \E pedantic \in BOOLEAN :
         LET r == all_chunks(reader, file, pedantic)
         IN  /\ reader' = r.reader
             /\ call' = [NoCall EXCEPT !.op = "all_chunks", !.pedantic = pedantic,
                                       !.result = r.result]
             /\ phase' = IF r.result = Ok THEN "chunks" ELSE "done"
    /\ UNCHANGED <<headers, writer, file, written, consumer, emitted, blocks>>
    /\ UNCHANGED added

\* the filters: the sets of blocks a predicate can return true for
Filters(hs) == SUBSET { BlocksIncreasingY(hs)[k] : k \in 1..TotalChunkCount(hs) }

FilterChunks ==
    /\ phase = "reader"
    /\ \E pedantic \in BOOLEAN : \E filter \in Filters(reader.meta_data.headers) :
         LET r == filter_chunks(reader, file, pedantic, filter)
         IN  /\ reader' = r.reader
             /\ call' = [NoCall EXCEPT
                           !.op = "filter_chunks", !.pedantic = pedantic,
                           !.filter = filter, !.result = r.result,
                           !.predicate_calls =
                               IF r.result \in {Ok, Invalid("chunk offset table")}
                                   THEN predicate_calls(reader.meta_data.headers)
                               ELSE <<>>]
             /\ phase' = IF r.result = Ok THEN "chunks" ELSE "done"
    /\ UNCHANGED <<headers, writer, file, written, consumer, emitted, blocks>>
    /\ UNCHANGED added

\* the caller pulls the next item of the chunk reader itself
ReadNextChunk ==
    /\ phase = "chunks"
    /\ consumer.kind \in {"None", "Iterator"}
    /\ Len(emitted) < expected_chunk_count(reader) + MaxExtraNext
    /\ LET n == read_next_chunk(reader, file)
       IN  /\ reader' = n.reader
           /\ emitted' = Append(emitted, [item |-> n.item, at |-> n.at])
    /\ consumer' = [consumer EXCEPT !.kind = "Iterator"]
    /\ UNCHANGED <<headers, phase, writer, file, written, call, blocks>>
    /\ UNCHANGED added

\* an insert_block closure that puts each block in front of those it has
insert_block_front(bs, block) == <<block>> \o bs
\* an insert_block closure that drops every block after the first
insert_block_once(bs, block) == IF bs = <<>> THEN <<block>> ELSE bs

\* the insert_block closure of the caller: it collects the blocks in call order
insert_block(bs, block) == Append(bs, block)

\* the error a closure of the caller returns
InsertError == [kind |-> "Aborted", msg |-> "cancelled"]

\* an insert_block whose error the driver would not look at
insert_block_result_ignored(c) == Ok

\* what the insert_block closure returns at its next call
insert_block_result(c) ==
    IF c.insert_fails_at = c.inserted + 1 THEN InsertError ELSE Ok

\* one round of the loop of ChunksReader::decompress_sequential, the first round
\* included; insert_block collects the blocks
DecompressSequential ==
    /\ phase = "chunks"
    /\ consumer.kind \in {"None", "Sequential"}
    /\ \E pedantic \in (IF consumer.kind = "None" THEN BOOLEAN ELSE {consumer.pedantic}) :
         LET d == decompress_next_block(reader, file, pedantic)
             inserts == d.result = Ok
             returns == ~inserts \/ insert_block_result(consumer) # Ok
         IN  /\ reader' = d.reader
             /\ emitted' = Append(emitted, [item |-> d.chunk_item, at |-> d.at])
             /\ blocks' = IF returns THEN blocks ELSE insert_block(blocks, d.block)
             /\ consumer' = [consumer EXCEPT
                               !.kind = "Sequential", !.pedantic = pedantic,
                               !.inserted = IF inserts THEN @ + 1 ELSE @,
                               !.result = IF ~returns THEN NoResult
                                          ELSE IF inserts THEN insert_block_result(consumer)
                                          ELSE IF d.result = NoResult THEN Ok
                                          ELSE d.result]
             /\ phase' = IF returns THEN "done" ELSE "chunks"
    /\ UNCHANGED <<headers, writer, file, written, call>>
    /\ UNCHANGED added

WriterNext == WriteChunk \/ CompleteMetaData
ReaderNext == ReadFromBuffered \/ AllChunks \/ FilterChunks \/ ReadNextChunk
                \/ DecompressSequential

\* a file is written, and then read back with all_chunks and decompress_sequential
Next == WriterNext \/ ReadFromBuffered \/ AllChunks \/ DecompressSequential

Spec == Init /\ [][Next]_vars

(***************************************************************************)
(* Reading any file: the offset tables of the file name any of the chunks, *)
(* or a byte outside of the chunks, and bytes may follow the last chunk.   *)
(***************************************************************************)
\* the largest number of bytes after the last chunk of an input file
MaxTrailingBytes == 1

\* the chunks of the image in the order of the blocks, headers in order
ImageChunks(hs) ==
    LET bs == BlocksIncreasingY(hs)
    IN  [k \in 1..Len(bs) |-> compress_to_chunk(BlockOf(hs, bs[k][1], bs[k][2]), hs)]

ChunksStartByte(hs) == Len(EncodeMetaData(hs)) + TotalChunkCount(hs) * U64_BYTE_SIZE

\* the byte position of chunk k of a file that holds ImageChunks(hs)
ChunkStart(hs, k) ==
    ChunksStartByte(hs)
      + SumSeq([j \in 1..(k - 1) |-> Len(ChunkBytes(ImageChunks(hs)[j], Len(hs)))])

\* the offsets an offset table entry of an input file is drawn from: the chunks,
\* the byte before the first chunk, and a byte beyond any chunk
OffsetChoices(hs) ==
    { ChunkStart(hs, k) : k \in 1..TotalChunkCount(hs) }
    \cup { ChunksStartByte(hs) - 1,
           ChunksStartByte(hs)
             + SumSeq([k \in 1..Len(hs) |-> max_pixel_file_bytes(hs[k])]) + 1 }

InputFile(hs, offsets, trailing) ==
    EncodeMetaData(hs)
    \o Flatten([k \in 1..Len(offsets) |-> ToLE(offsets[k], U64_BYTE_SIZE)])
    \o Flatten([k \in 1..TotalChunkCount(hs) |-> ChunkBytes(ImageChunks(hs)[k], Len(hs))])
    \o Zeros(trailing)

InitRead ==
    /\ headers \in HeaderLists
    /\ phase = "file"
    /\ writer = NoWriter
    /\ \E offsets \in [1..TotalChunkCount(headers) -> OffsetChoices(headers)] :
       \E trailing \in 0..MaxTrailingBytes :
           file = InputFile(headers, offsets, trailing)
    /\ written = <<>>
    /\ call = NoCall
    /\ reader = NoReader
    /\ consumer = NoConsumer
    /\ emitted = <<>>
    /\ blocks = <<>>
    /\ AddedInit

SpecRead == InitRead /\ [][ReaderNext]_vars

(***************************************************************************)
(* Properties of the writer, and of writing and reading back.              *)
(***************************************************************************)
\* entry k (from 1) of the offset tables as the bytes of the file hold it
FileSlot(k) ==
    U64FromLE(Slice(file, writer.chunk_indices_byte_location.start + (k - 1) * U64_BYTE_SIZE,
                    U64_BYTE_SIZE))

\* the slot of table l (from 1), entry i (from 1), counted over all tables
SlotNumber(l, i) == SumSeq([k \in 1..(l - 1) |-> headers[k].chunk_count]) + i

\* complete_meta_data has returned Ok
Completed == phase \notin {"writing", "failed"}

\* C1: when every slot has been written once and complete_meta_data has succeeded,
\* reading the file back with all_chunks (pedantic or not) and decompressing
\* sequentially fails nowhere, yields the meta data that was written, and yields
\* the written blocks, in the order they were written.
C1_RoundTrip ==
    /\ call.op \in {"read_from_buffered", "all_chunks"} => call.result = Ok
    /\ reader.kind # "None" => reader.meta_data = MetaDataOf(headers)
    /\ consumer.kind = "Sequential" =>
         /\ consumer.result \in {NoResult, Ok}
         /\ Len(blocks) <= Len(written)
         /\ \A k \in 1..Len(blocks) : blocks[k] = written[k].block
         /\ consumer.result = Ok => Len(blocks) = Len(written)

\* a pedantic read has returned all three blocks of a file of two layers whose
\* chunks were not written in the order of the blocks
C1_Witness ==
    /\ phase = "done" /\ consumer.kind = "Sequential" /\ consumer.result = Ok
    /\ reader.pedantic /\ Len(headers) = 2 /\ Len(blocks) = 3
    /\ written[1].chunk.layer_index = 1
    /\ \A k \in 1..3 : blocks[k] = written[k].block

\* C2: after complete_meta_data has returned Ok, every entry of the offset tables
\* in the file is non-zero and lies between the end of the offset tables and the
\* end of the file.
C2_OffsetTablesComplete ==
    Completed =>
        \A k \in 1..writer.chunk_count :
            /\ FileSlot(k) # 0
            /\ FileSlot(k) >= writer.chunk_indices_byte_location.end
            /\ FileSlot(k) <= Len(file)

\* complete_meta_data has just returned Ok for a file of three chunks
C2_Witness ==
    /\ phase = "file" /\ call.op = "complete_meta_data" /\ call.result = Ok
    /\ writer.chunk_count = 3
    /\ \A k \in 1..3 : FileSlot(k) >= writer.chunk_indices_byte_location.end

\* C3: the offset recorded for a chunk is the byte position of the writer when
\* write_chunk was called, the chunk lies at that offset in the file, and the
\* offsets increase strictly in call order; when the chunks of a header were
\* written in increasing index order, its finished table is strictly ascending.
C3_OffsetsInCallOrder ==
    /\ \A k \in 1..Len(written) :
         LET l == written[k].chunk.layer_index + 1
             bytes == ChunkBytes(written[k].chunk, Len(headers))
         IN  /\ writer.chunk_indices_increasing_y[l][written[k].index + 1] = written[k].offset
             /\ Slice(file, written[k].offset, Len(bytes)) = bytes
             /\ \A j \in 1..(k - 1) : written[j].offset < written[k].offset
    /\ Completed =>
         \A l \in 1..Len(headers) :
            (\A j, k \in 1..Len(written) :
                (j < k /\ written[j].chunk.layer_index = l - 1
                       /\ written[k].chunk.layer_index = l - 1)
                    => written[j].index < written[k].index)
            => \A i \in 1..(headers[l].chunk_count - 1) :
                  FileSlot(SlotNumber(l, i)) < FileSlot(SlotNumber(l, i + 1))

\* a file of one header is finished whose three chunks were written in index order
C3_Witness ==
    /\ phase = "file" /\ Len(headers) = 1 /\ Len(written) = 3
    /\ \A k \in 1..3 : written[k].index = k - 1
    /\ FileSlot(1) < FileSlot(2) /\ FileSlot(2) < FileSlot(3)

\* this step is a write_chunk call
WriteChunkStep == phase = "writing" /\ call'.op = "write_chunk"

\* C4: a write_chunk call for a slot that an earlier call has written fails with
\* Invalid("chunk at this index is already written").
C4_SecondWriteFails ==
    [][(/\ WriteChunkStep
        /\ \E k \in 1..Len(written) :
              /\ written[k].chunk.layer_index = call'.layer
              /\ written[k].index = call'.index)
       => call'.result = Invalid("chunk at this index is already written")]_vars

\* the slot written first is written again after another slot has been written
C4_Witness ==
    /\ call.op = "write_chunk"
    /\ call.result = Invalid("chunk at this index is already written")
    /\ Len(written) >= 2
    /\ written[1].chunk.layer_index = call.layer /\ written[1].index = call.index

\* C5: complete_meta_data fails with Invalid("some chunks are not written yet")
\* when a slot is still zero, and then leaves the file and the byte position of the
\* writer as they are: the reserved offset tables stay zero.
C5_IncompleteFails ==
    [][(phase = "writing" /\ call'.op = "complete_meta_data" /\ SomeSlotZero(writer))
       => /\ call'.result = Invalid("some chunks are not written yet")
          /\ file' = file
          /\ writer'.byte_position = writer.byte_position
          /\ \A k \in 1..writer.chunk_count : FileSlot(k)' = 0]_vars

\* complete_meta_data has failed after some but not all chunks were written
C5_Witness ==
    /\ phase = "failed" /\ call.op = "complete_meta_data"
    /\ call.result = Invalid("some chunks are not written yet")
    /\ Len(written) = 2 /\ writer.chunk_count = 3

\* C6: write_chunk fails with Invalid("too large chunk index") when the index is
\* not less than the chunk count of the header of the chunk.
C6_TooLargeIndex ==
    (/\ phase = "writing" /\ call.op = "write_chunk"
     /\ call.index >= headers[call.layer + 1].chunk_count)
    => call.result = Invalid("too large chunk index")

\* an index equal to the chunk count of the header is rejected after a write
C6_Witness ==
    /\ phase = "writing" /\ call.op = "write_chunk" /\ Len(written) >= 1
    /\ call.index = headers[call.layer + 1].chunk_count
    /\ call.result = Invalid("too large chunk index")

\* C7: a rejected write_chunk call changes neither the file nor the writer: not its
\* byte position, and no slot of its offset tables.
C7_RejectedWriteHasNoEffect ==
    [][(WriteChunkStep /\ call'.result.kind = "Invalid")
       => (file' = file /\ writer' = writer /\ written' = written)]_vars

\* a call is rejected because its slot is written, after two chunks were written
C7_Witness ==
    /\ phase = "writing" /\ call.op = "write_chunk" /\ call.result.kind = "Invalid"
    /\ Len(written) = 2
    /\ writer.chunk_indices_increasing_y[call.layer + 1][1] # 0

(***************************************************************************)
(* Properties of the chunk readers, for any input file.                    *)
(***************************************************************************)
\* entry k (from 1) of the offset tables of the file that is read
TableEntry(k) ==
    U64FromLE(Slice(file, Len(EncodeMetaData(headers)) + (k - 1) * U64_BYTE_SIZE,
                    U64_BYTE_SIZE))

\* the offset table entry of a block, given as header index and block index
EntryOf(b) == TableEntry(SlotNumber(b[1] + 1, b[2] + 1))

\* the byte position after the last chunk of the file that is read
EndOfChunks == ChunkStart(headers, TotalChunkCount(headers) + 1)

\* validate_offset_tables accepts the offset
InRange(offset) ==
    /\ offset >= ChunksStartByte(headers)
    /\ offset <= ChunksStartByte(headers)
                   + SumSeq([k \in 1..Len(headers) |-> max_pixel_file_bytes(headers[k])])

\* the item that reading a chunk at the byte position gives
ItemAt(pos) ==
    LET c == ChunkRead(file, pos, MetaDataOf(headers))
    IN  IF c.result = Ok THEN SomeOk(c.chunk) ELSE SomeErr(c.result)

\* C8: once an AllChunksReader has returned its expected chunks, next returns
\* Invalid("end of file expected") if the reader is pedantic and a byte follows
\* the last chunk, and end of stream otherwise.
C8_EndOfFileExpected ==
    reader.kind = "AllChunksReader" =>
        \A k \in 1..Len(emitted) :
            k > TotalChunkCount(headers) =>
                emitted[k].item = IF reader.pedantic /\ Len(file) > EndOfChunks
                                  THEN SomeErr(Invalid("end of file expected"))
                                  ELSE None

\* a pedantic reader of a file of three chunks and a trailing byte has returned
\* the three chunks and then the error
C8_Witness ==
    /\ reader.kind = "AllChunksReader" /\ reader.pedantic
    /\ Len(file) = EndOfChunks + 1
    /\ Len(emitted) = 4
    /\ \A k \in 1..3 : emitted[k].item.kind = "Ok"
    /\ emitted[4].item = SomeErr(Invalid("end of file expected"))

\* C9, as claimed: in pedantic mode, all_chunks and filter_chunks fail with
\* Invalid("chunk offset table") when two entries of the offset tables are equal
\* (stated for tables whose entries all pass the range validation).
C9_DuplicatesRejected ==
    (/\ call.op \in {"all_chunks", "filter_chunks"} /\ call.pedantic
     /\ \A k \in 1..TotalChunkCount(headers) : InRange(TableEntry(k))
     /\ \E j, k \in 1..TotalChunkCount(headers) : j < k /\ TableEntry(j) = TableEntry(k))
    => call.result = Invalid("chunk offset table")

\* C9, amended: in pedantic mode, filter_chunks fails when two of the blocks its
\* predicate selects have equal offsets: with Invalid("offset table") if an entry
\* of the tables is out of range, with Invalid("chunk offset table") otherwise.
C9_SelectedDuplicatesRejected ==
    (/\ call.op = "filter_chunks" /\ call.pedantic
     /\ \E b1, b2 \in call.filter : b1 # b2 /\ EntryOf(b1) = EntryOf(b2))
    => call.result =
         IF \A k \in 1..TotalChunkCount(headers) : InRange(TableEntry(k))
         THEN Invalid("chunk offset table") ELSE Invalid("offset table")

\* pedantic filter_chunks has rejected a table of three entries in range, the
\* first and the last equal, all three selected
C9_Witness ==
    /\ call.op = "filter_chunks" /\ call.pedantic
    /\ call.result = Invalid("chunk offset table")
    /\ TotalChunkCount(headers) = 3 /\ Cardinality(call.filter) = 3
    /\ TableEntry(1) = TableEntry(3) /\ TableEntry(1) # TableEntry(2)

\* the byte positions a FilteredChunksReader has read chunks at, then those left
FilteredPositions ==
    LET m == Min(Len(emitted), reader.expected_filtered_chunk_count)
    IN  [k \in 1..m |-> emitted[k].at] \o reader.remaining_filtered_chunk_indices

\* C10, as claimed: a FilteredChunksReader emits one chunk for each distinct
\* selected offset, in ascending order of the offsets (stated for tables whose
\* entries all are the start of a chunk of the file).
C10_OnePerDistinctOffset ==
    (/\ reader.kind = "FilteredChunksReader"
     /\ \A k \in 1..TotalChunkCount(headers) :
           \E j \in 1..TotalChunkCount(headers) : TableEntry(k) = ChunkStart(headers, j)) =>
        /\ reader.expected_filtered_chunk_count
              = Cardinality({ EntryOf(b) : b \in call.filter })
        /\ \A j, k \in 1..Len(FilteredPositions) :
              j < k => FilteredPositions[j] < FilteredPositions[k]

\* C10, amended: a FilteredChunksReader emits one item for each selected block,
\* read at the offset of the block, in non-decreasing order of the offsets, and
\* then end of stream; in pedantic mode the offsets are distinct and ascending.
C10_OnePerSelectedBlock ==
    reader.kind = "FilteredChunksReader" =>
        /\ reader.expected_filtered_chunk_count = Cardinality(call.filter)
        /\ Len(FilteredPositions) = Cardinality(call.filter)
        /\ \A b \in call.filter :
              Cardinality({ k \in 1..Len(FilteredPositions) : FilteredPositions[k] = EntryOf(b) })
                = Cardinality({ c \in call.filter : EntryOf(c) = EntryOf(b) })
        /\ \A j, k \in 1..Len(FilteredPositions) :
              j < k => /\ FilteredPositions[j] <= FilteredPositions[k]
                       /\ reader.pedantic => FilteredPositions[j] < FilteredPositions[k]
        /\ \A k \in 1..Len(emitted) :
              emitted[k].item = IF k <= reader.expected_filtered_chunk_count
                                THEN ItemAt(emitted[k].at) ELSE None

\* a reader that is not pedantic has emitted three chunks, two of them read at
\* the same offset, for a table whose entries were not in ascending order
C10_Witness ==
    /\ reader.kind = "FilteredChunksReader" /\ ~reader.pedantic
    /\ Len(emitted) = 3 /\ reader.expected_filtered_chunk_count = 3
    /\ TableEntry(1) > TableEntry(2) /\ TableEntry(1) = TableEntry(3)
    /\ emitted[1].at < emitted[2].at /\ emitted[2].at = emitted[3].at
    /\ \A k \in 1..3 : emitted[k].item.kind = "Ok"

(***************************************************************************)
(* Driving a chunk reader: on_progress, and the parallel decompressors.    *)
(* A spawned task decompresses its chunk and sends the result at any time; *)
(* the channel holds the results in the order they were sent.              *)
(***************************************************************************)
\* the largest number of threads of the rayon pool of decompress_parallel
MaxThreads == 2
\* the number of chunks of a file with more chunks than a pool takes at once
LongFileChunks == 5
\* max_parallel_blocks of ParallelBlockDecompressor::decompress_next_block
MAX_PARALLEL_BLOCKS == 4
\* the constant added to the thread count in decompress_parallel
EXTRA_RUNNING == 2

\* pool.spawn of a task for the chunk, had the counter been left alone
SpawnTask_uncounted(pl, chunk) ==
    [pl EXCEPT !.running = @ \cup {[id |-> pl.spawned + 1, chunk |-> chunk]},
               !.spawned = @ + 1]

\* pool.spawn of a task for the chunk, after currently_running += 1
SpawnTask(pl, chunk) ==
    [pl EXCEPT !.running = @ \cup {[id |-> pl.spawned + 1, chunk |-> chunk]},
               !.spawned = @ + 1,
               !.currently_running = @ + 1]

\* ChunksReader::decompress_sequential as a function of the reader, insert_block
\* collecting the blocks: the result, and the blocks in the order of insertion
RECURSIVE decompress_all(_, _, _, _)
decompress_all(r, bytes, pedantic, acc) ==
    LET d == decompress_next_block(r, bytes, pedantic)
    IN  IF d.result = NoResult THEN [result |-> Ok, blocks |-> acc]
        ELSE IF d.result # Ok THEN [result |-> d.result, blocks |-> acc]
        ELSE decompress_all(d.reader, bytes, pedantic, Append(acc, d.block))

\* the refill loop, had it stopped at an error of the reader without returning it
RECURSIVE refill_error_dropped(_, _, _, _)
refill_error_dropped(r, bytes, pl, read) ==
    IF pl.currently_running >= MAX_PARALLEL_BLOCKS
        THEN [reader |-> r, pool |-> pl, read |-> read, error |-> NoResult]
    ELSE LET n == read_next_chunk(r, bytes)
             log == Append(read, [item |-> n.item, at |-> n.at])
         IN  IF n.item.kind # "Ok"
                 THEN [reader |-> n.reader, pool |-> pl, read |-> log, error |-> NoResult]
             ELSE refill_error_dropped(n.reader, bytes, SpawnTask(pl, n.item.chunk), log)

\* the refill loop, had it compared the count with <= max_parallel_blocks
RECURSIVE refill_one_more(_, _, _, _)
refill_one_more(r, bytes, pl, read) ==
    IF pl.currently_running > MAX_PARALLEL_BLOCKS
        THEN [reader |-> r, pool |-> pl, read |-> read, error |-> NoResult]
    ELSE LET n == read_next_chunk(r, bytes)
             log == Append(read, [item |-> n.item, at |-> n.at])
         IN  IF n.item.kind = "None"
                 THEN [reader |-> n.reader, pool |-> pl, read |-> log, error |-> NoResult]
             ELSE IF n.item.kind # "Ok"
                 THEN [reader |-> n.reader, pool |-> pl, read |-> log,
                       error |-> [kind |-> n.item.kind, msg |-> n.item.msg]]
             ELSE refill_one_more(n.reader, bytes, SpawnTask(pl, n.item.chunk), log)

\* the refill loop of ParallelBlockDecompressor::decompress_next_block: the reader
\* and the pool after it, the items it read, and the error it returns, if any
RECURSIVE refill(_, _, _, _)
refill(r, bytes, pl, read) ==
    IF pl.currently_running >= MAX_PARALLEL_BLOCKS
        THEN [reader |-> r, pool |-> pl, read |-> read, error |-> NoResult]
    ELSE LET n == read_next_chunk(r, bytes)
             log == Append(read, [item |-> n.item, at |-> n.at])
         IN  IF n.item.kind = "None"
                 THEN [reader |-> n.reader, pool |-> pl, read |-> log, error |-> NoResult]
             ELSE IF n.item.kind # "Ok"
                 THEN [reader |-> n.reader, pool |-> pl, read |-> log,
                       error |-> [kind |-> n.item.kind, msg |-> n.item.msg]]
             ELSE refill(n.reader, bytes, SpawnTask(pl, n.item.chunk), log)

\* the files that are driven: the chunks of the image with their offsets, and
\* bytes after the last chunk
DriveHeaderLists ==
    HeaderLists
    \cup { <<[chunk_count |-> LongFileChunks, compression |-> "RLE", width |-> 1,
               blocks |-> "ScanLines"]>> }

InitDrive ==
    /\ headers \in DriveHeaderLists
    /\ phase = "file"
    /\ writer = NoWriter
    /\ \E trailing \in 0..MaxTrailingBytes :
           file = InputFile(headers,
                            [k \in 1..TotalChunkCount(headers) |-> ChunkStart(headers, k)],
                            trailing)
    /\ written = <<>>
    /\ call = NoCall
    /\ reader = NoReader
    /\ consumer = NoConsumer
    /\ emitted = <<>>
    /\ blocks = <<>>
    /\ AddedInit

\* the caller wraps the chunk reader before it reads from it
OnProgress ==
    /\ phase = "chunks" /\ consumer.kind = "None" /\ ~reader.on_progress
    /\ reader' = on_progress(reader)
    /\ UNCHANGED <<headers, phase, writer, file, written, call, consumer, emitted, blocks>>
    /\ UNCHANGED added

\* a task of the pool decompresses its chunk and sends the result
WorkerDecompress ==
    /\ phase = "chunks"
    /\ \E t \in pool.running :
         pool' = [pool EXCEPT
                    !.running = @ \ {t},
                    !.channel = Append(@, decompress_chunk(t.chunk, reader.meta_data,
                                                           consumer.pedantic))]
    /\ UNCHANGED <<headers, phase, writer, file, written, call, reader, consumer, emitted,
                   blocks, progress_writer, blocks_writer, pure>>

\* how decompress_parallel ends once no task is running: assert_eq!(self.len(), 0)
ParallelEnd(r) ==
    IF size_hint(r) = 0 THEN Ok ELSE Panic("assertion failed: self.len() == 0")

\* decompress_parallel up to its loop: without compression, or without a thread
\* pool, it is decompress_sequential
DecompressParallel ==
    /\ phase = "chunks" /\ consumer.kind = "None"
    /\ \E pedantic \in BOOLEAN, threads \in 1..MaxThreads, pool_built \in BOOLEAN :
         IF \/ \A k \in 1..Len(reader.meta_data.headers) :
                   reader.meta_data.headers[k].compression = "Uncompressed"
            \/ ~pool_built
             THEN /\ consumer' = [consumer EXCEPT !.kind = "Sequential",
                                                      !.pedantic = pedantic]
                  /\ pool' = pool
         ELSE /\ consumer' = [consumer EXCEPT !.kind = "Parallel",
                                                  !.pedantic = pedantic]
              /\ pool' = [NoPool EXCEPT
                            !.threads = threads,
                            !.max_currently_running =
                                Min(Max(threads, 1), size_hint(reader)) + EXTRA_RUNNING,
                            !.pc = "read"]
    /\ UNCHANGED <<headers, phase, writer, file, written, call, reader, emitted, blocks,
                   progress_writer, blocks_writer, pure>>

\* one round of the loop of decompress_parallel: read_next_chunk, then spawn
\* the task, or wait for a result when too many tasks are running
ParallelRead ==
    /\ phase = "chunks" /\ consumer.kind = "Parallel" /\ pool.pc = "read"
    /\ LET n == read_next_chunk(reader, file)
       IN  /\ reader' = n.reader
           /\ emitted' = Append(emitted, [item |-> n.item, at |-> n.at])
           /\ IF n.item.kind = "None"
                  THEN IF pool.currently_running > 0
                           THEN /\ pool' = [pool EXCEPT !.pc = "drain"]
                                /\ UNCHANGED <<consumer, phase>>
                       ELSE /\ pool' = [pool EXCEPT !.pc = "done"]
                            /\ consumer' = [consumer EXCEPT !.result = ParallelEnd(n.reader)]
                            /\ phase' = "done"
              ELSE IF n.item.kind # "Ok"
                  THEN /\ pool' = [pool EXCEPT !.pc = "done"]
                       /\ consumer' = [consumer EXCEPT
                                         !.result = [kind |-> n.item.kind, msg |-> n.item.msg]]
                       /\ phase' = "done"
              ELSE IF pool.currently_running >= pool.max_currently_running
                  THEN /\ pool' = [pool EXCEPT !.pc = "wait", !.chunk = n.item.chunk]
                       /\ UNCHANGED <<consumer, phase>>
              ELSE /\ pool' = SpawnTask(pool, n.item.chunk)
                   /\ UNCHANGED <<consumer, phase>>
    /\ UNCHANGED <<headers, writer, file, written, call, blocks,
                   progress_writer, blocks_writer, pure>>

\* recv.recv() of decompress_parallel, in the loop or after it: the result is
\* inserted, or its error is returned
ParallelRecv ==
    /\ phase = "chunks" /\ consumer.kind = "Parallel" /\ pool.pc \in {"wait", "drain"}
    /\ pool.channel # <<>>
    /\ LET decompressed == Head(pool.channel)
           received == [pool EXCEPT !.channel = Tail(@)]
           inserted == [received EXCEPT !.currently_running = @ - 1]
           called == [consumer EXCEPT !.inserted = @ + 1]
       IN  IF decompressed.result # Ok
               THEN /\ pool' = [received EXCEPT !.pc = "done"]
                    /\ consumer' = [consumer EXCEPT !.result = decompressed.result]
                    /\ phase' = "done"
                    /\ blocks' = blocks
           ELSE IF insert_block_result(consumer) # Ok
               THEN /\ pool' = [received EXCEPT !.pc = "done"]
                    /\ consumer' = [called EXCEPT !.result = insert_block_result(consumer)]
                    /\ phase' = "done"
                    /\ blocks' = blocks
           ELSE /\ blocks' = insert_block(blocks, decompressed.block)
                /\ IF pool.pc = "wait"
                       THEN /\ pool' = IF inserted.currently_running
                                            >= inserted.max_currently_running
                                           THEN inserted
                                       ELSE [SpawnTask(inserted, inserted.chunk) EXCEPT
                                               !.pc = "read", !.chunk = NoChunk]
                            /\ consumer' = called
                            /\ phase' = phase
                   ELSE IF inserted.currently_running > 0
                       THEN /\ pool' = inserted
                            /\ consumer' = called
                            /\ phase' = phase
                   ELSE /\ pool' = [inserted EXCEPT !.pc = "done"]
                        /\ consumer' = [called EXCEPT !.result = ParallelEnd(reader)]
                        /\ phase' = "done"
    /\ UNCHANGED <<headers, writer, file, written, call, reader, emitted,
                   progress_writer, blocks_writer, pure>>

\* ParallelBlockDecompressor::new on the first call, then the refill loop of
\* decompress_next_block; the caller stops at the first error and at None
ParallelDecompressorFill ==
    /\ phase = "chunks" /\ consumer.kind \in {"None", "ParallelDecompressor"}
    /\ pool.pc \in {"none", "idle"}
    /\ \E pedantic \in (IF consumer.kind = "None" THEN BOOLEAN ELSE {consumer.pedantic}) :
         LET f == refill(reader, file, pool, <<>>)
             c == [consumer EXCEPT !.kind = "ParallelDecompressor",
                                   !.pedantic = pedantic]
         IN  /\ reader' = f.reader
             /\ emitted' = emitted \o f.read
             /\ IF f.error # NoResult
                    THEN /\ pool' = [f.pool EXCEPT !.pc = "done"]
                         /\ consumer' = [c EXCEPT !.result = f.error]
                         /\ phase' = "done"
                ELSE IF f.pool.currently_running > 0
                    THEN /\ pool' = [f.pool EXCEPT !.pc = "recv"]
                         /\ consumer' = c
                         /\ phase' = phase
                ELSE /\ pool' = [f.pool EXCEPT !.pc = "done"]
                     /\ consumer' = [c EXCEPT !.result = Ok]
                     /\ phase' = "done"
    /\ UNCHANGED <<headers, writer, file, written, call, blocks,
                   progress_writer, blocks_writer, pure>>

\* self.receiver.recv() of ParallelBlockDecompressor::decompress_next_block
ParallelDecompressorRecv ==
    /\ phase = "chunks" /\ consumer.kind = "ParallelDecompressor" /\ pool.pc = "recv"
    /\ pool.channel # <<>>
    /\ LET next == Head(pool.channel)
           received == [pool EXCEPT !.channel = Tail(@), !.currently_running = @ - 1]
       IN  IF next.result # Ok
               THEN /\ pool' = [received EXCEPT !.pc = "done"]
                    /\ consumer' = [consumer EXCEPT !.result = next.result]
                    /\ phase' = "done"
                    /\ blocks' = blocks
           ELSE /\ pool' = [received EXCEPT !.pc = "idle"]
                /\ blocks' = insert_block(blocks, next.block)
                /\ UNCHANGED <<consumer, phase>>
    /\ UNCHANGED <<headers, writer, file, written, call, reader, emitted,
                   progress_writer, blocks_writer, pure>>

DriveNext ==
    \/ ReadFromBuffered
    \/ AllChunks
    \/ FilterChunks
    \/ OnProgress
    \/ ReadNextChunk
    \/ DecompressSequential
    \/ DecompressParallel
    \/ ParallelRead
    \/ ParallelRecv
    \/ ParallelDecompressorFill
    \/ ParallelDecompressorRecv
    \/ WorkerDecompress

SpecDrive == InitDrive /\ [][DriveNext]_vars

(***************************************************************************)
(* Properties of the chunk readers and of the decompressors.               *)
(***************************************************************************)
\* the items, other than end-of-stream, that next has returned so far
ItemsReturned == Len(SelectSeq(emitted, LAMBDA e : e.item.kind # "None"))

\* C11: every chunk reader is a finite, exact-size sequence: the caller's next()
\* calls return exactly expected_chunk_count() items and then end-of-stream, and
\* size_hint is at every point the number of items still to be returned.
C11_ExactSize ==
    consumer.kind = "Iterator" =>
        /\ \A i \in 1..Len(emitted) :
               (emitted[i].item.kind # "None") <=> (i <= expected_chunk_count(reader))
        /\ size_hint(reader) = expected_chunk_count(reader) - ItemsReturned

\* C13: sequential decompression preserves the order of the chunk reader: the i-th
\* block passed to insert_block is the decompression of the i-th chunk that the
\* reader returned.
C13_SequentialOrder ==
    consumer.kind = "Sequential" =>
        /\ Len(blocks) <= Len(emitted)
        /\ \A i \in 1..Len(blocks) :
               /\ emitted[i].item.kind = "Ok"
               /\ decompress_chunk(emitted[i].item.chunk, reader.meta_data, consumer.pedantic)
                    = [result |-> Ok, block |-> blocks[i]]

\* decompress_sequential has returned Ok after blocks of two layers
C13_Witness ==
    /\ consumer.kind = "Sequential" /\ consumer.result = Ok
    /\ Len(blocks) >= 2
    /\ blocks[1].index.layer # blocks[Len(blocks)].index.layer

\* the chunk reader as the caller handed it to the driver: rebuilt from the file
\* and the call that made the reader
InitialReader ==
    LET r == read_from_buffered(file).reader
        c == IF call.op = "all_chunks" THEN all_chunks(r, file, call.pedantic).reader
             ELSE filter_chunks(r, file, call.pedantic, call.filter).reader
    IN  IF reader.on_progress THEN on_progress(c) ELSE c

\* what decompress_sequential does with the chunk reader the driver was given
SequentialOutcome == decompress_all(InitialReader, file, consumer.pedantic, <<>>)

\* the multiset of the elements of a sequence
BagOf(seq) ==
    [x \in {seq[i] : i \in DOMAIN seq} |-> Cardinality({i \in DOMAIN seq : seq[i] = x})]

ParallelDone == consumer.kind \in {"Parallel", "ParallelDecompressor"} /\ phase = "done"

\* C12 as stated: for any interleaving of the workers, parallel decompression
\* delivers the same multiset of blocks as sequential decompression of the same
\* chunk reader.
C12_SameMultiset ==
    ParallelDone => BagOf(blocks) = BagOf(SequentialOutcome.blocks)

\* C12, amended: when sequential decompression of the chunk reader succeeds,
\* parallel decompression succeeds for any interleaving of the workers and delivers
\* the same multiset of blocks; when sequential decompression fails, parallel
\* decompression fails as well.
C12_SameMultisetWhenOk ==
    ParallelDone =>
        IF SequentialOutcome.result = Ok
            THEN consumer.result = Ok /\ BagOf(blocks) = BagOf(SequentialOutcome.blocks)
        ELSE consumer.result \notin {Ok, NoResult}

\* a parallel driver has delivered all blocks of the long file, not in file order
C12_Witness ==
    /\ ParallelDone /\ consumer.result = Ok
    /\ Len(blocks) = LongFileChunks
    /\ blocks # SequentialOutcome.blocks

\* an OnProgressChunksReader was driven to completion by one of the decompressors
ProgressDriven ==
    /\ reader.on_progress
    /\ consumer.kind \in {"Sequential", "Parallel", "ParallelDecompressor"}
    /\ phase = "done" /\ consumer.result = Ok

NonDecreasing(args) == \A i \in 1..(Len(args) - 1) : F64Leq(args[i], args[i + 1])

\* the number of callback(1.0) calls
EndReports == Len(SelectSeq(reader.callback, LAMBDA x : F64Eq(x, F64_ONE)))

\* C14 as stated: when a decompressor has driven an OnProgressChunksReader to
\* completion, the callback arguments are non-decreasing and callback(1.0) was
\* called exactly once.
C14_EndReportedOnce ==
    ProgressDriven => NonDecreasing(reader.callback) /\ EndReports = 1

\* C14, amended: the callback arguments are non-decreasing and callback(1.0) was
\* called at least once: exactly once under decompress_sequential and
\* decompress_parallel, and under a ParallelBlockDecompressor once for every call
\* of next that found the reader at its end, that is once more than the smaller of
\* the chunk count and max_parallel_blocks - 1.
C14_EndReported ==
    ProgressDriven =>
        /\ NonDecreasing(reader.callback)
        /\ EndReports >= 1
        /\ consumer.kind \in {"Sequential", "Parallel"} => EndReports = 1
        /\ consumer.kind = "ParallelDecompressor" =>
               EndReports = Min(expected_chunk_count(reader), MAX_PARALLEL_BLOCKS - 1) + 1

\* a ParallelBlockDecompressor has delivered the blocks of the long file, and the
\* callback was called for each chunk and more than once with 1.0
C14_Witness ==
    /\ ProgressDriven /\ consumer.kind = "ParallelDecompressor"
    /\ Len(blocks) = LongFileChunks
    /\ Len(reader.callback) > LongFileChunks + 1

\* the OnProgressChunksReader was read to its end, and no item was an error
ReadToCompletion ==
    /\ reader.on_progress
    /\ \E i \in 1..Len(emitted) : emitted[i].item.kind = "None"
    /\ \A i \in 1..Len(emitted) : emitted[i].item.kind \in {"Ok", "None"}

\* C15: once an OnProgressChunksReader has been read to completion without error,
\* whatever its expected chunk count, the callback has been called with 0.0, at
\* the first item, and with 1.0, at completion.
C15_ZeroAndOne ==
    ReadToCompletion =>
        /\ reader.callback # <<>>
        /\ F64Eq(reader.callback[1], F64_ZERO)
        /\ \E i \in 1..Len(reader.callback) : F64Eq(reader.callback[i], F64_ONE)

(***************************************************************************)
(* Writing through an OnProgressChunkWriter.                               *)
(***************************************************************************)
\* the largest number of write_chunk calls that are rejected before the first chunk
\* is written
MaxRejectedWrites == 2

\* ChunkWriter::total_chunks_count
total_chunks_count(w) == w.chunk_count

\* OnProgressChunkWriter::write_chunk on the progress writer pw that wraps the
\* chunk writer w: the progress writer after the call, and what the inner
\* write_chunk returned
OnProgressChunkWriter_write_chunk(pw, w, sink, index_in_header_increasing_y, chunk) ==
    LET total_chunks == total_chunks_count(w)
        started == IF pw.written_chunks = 0 THEN Append(pw.on_progress, F64_ZERO)
                   ELSE pw.on_progress
        inner == write_chunk(w, sink, index_in_header_increasing_y, chunk)
    IN  IF inner.result # Ok
            THEN [progress |-> [pw EXCEPT !.on_progress = started], inner |-> inner]
        ELSE [progress |-> [written_chunks |-> pw.written_chunks + 1,
                            on_progress |-> Append(started,
                                                   Ratio(pw.written_chunks + 1, total_chunks))],
              inner |-> inner]

\* the closure of write_chunks_with wraps the writer with on_progress once, and
\* writes every chunk through the wrapper
WriteChunkOnProgress ==
    /\ phase = "writing"
    /\ progress_writer.written_chunks = 0 =>
           Len(progress_writer.on_progress) <= MaxRejectedWrites
    /\ \E index_in_header_increasing_y \in 0..MaxTotalChunks : \E b \in ValidBlocks(headers) :
         LET chunk == compress_to_chunk(b, headers)
             p == OnProgressChunkWriter_write_chunk(progress_writer, writer, file,
                                                    index_in_header_increasing_y, chunk)
         IN  /\ progress_writer' = p.progress
             /\ writer' = p.inner.writer
             /\ file' = p.inner.sink
             /\ written' = IF p.inner.result = Ok
                           THEN Append(written,
                                   [index |-> index_in_header_increasing_y, block |-> b,
                                    chunk |-> chunk, offset |-> writer.byte_position])
                           ELSE written
             /\ call' = [NoCall EXCEPT !.op = "write_chunk", !.layer = chunk.layer_index,
                                       !.index = index_in_header_increasing_y,
                                       !.result = p.inner.result]
    /\ UNCHANGED <<headers, phase, reader, consumer, emitted, blocks,
                   pool, blocks_writer, pure>>

SpecProgressWrite == Init /\ [][WriteChunkOnProgress \/ CompleteMetaData]_vars

\* C16: OnProgressChunkWriter reports 0.0 exactly once, before the first chunk is
\* written, and written/total after each successful write_chunk, so that the
\* values are non-decreasing and end with 1.0 after the last chunk; also when
\* the inner writer rejects some of the calls.
C16_ProgressOfWrites ==
    LET reports == progress_writer.on_progress
        total == total_chunks_count(writer)
    IN  /\ written # <<>> => reports # <<>>
        /\ reports # <<>> =>
               reports = <<F64_ZERO>> \o [k \in 1..Len(written) |-> Ratio(k, total)]

(***************************************************************************)
(* decompress_chunk and compress_to_chunk as functions: the headers are    *)
(* scan line or tiled, the chunks are flat or deep, well-formed or not.    *)
(***************************************************************************)
\* the largest width of a layer
MaxWidth == 2
\* the largest number of blocks of the layers together
MaxBlocks == 4

\* a header of scan lines, or of tiles that fill rows of the width of the layer
ChunkHeader ==
    { h \in [chunk_count : 1..MaxBlocks, compression : Compressions, width : 1..MaxWidth,
             blocks : {"ScanLines", "Tiles"}] :
        h.blocks = "Tiles" => h.chunk_count % h.width = 0 }

ChunkHeaderLists ==
    { hs \in UNION { [1..n -> ChunkHeader] : n \in 1..MaxHeaders } :
        TotalChunkCount(hs) <= MaxBlocks }

\* the blocks of layer l of the image: its scan lines, or its tiles
BlocksOfLayer(hs, l) ==
    LET h == hs[l + 1]
    IN  IF h.blocks = "ScanLines"
            THEN { [index |-> [layer |-> l, pixel_position |-> <<0, y>>,
                               pixel_size |-> <<h.width, 1>>, level |-> <<0, 0>>],
                    data |-> [x \in 1..h.width |-> Sample(l, y) + x]] :
                   y \in 0..(layer_size(h)[2] - 1) }
        ELSE { [index |-> [layer |-> l, pixel_position |-> <<x, y>>,
                           pixel_size |-> <<1, 1>>, level |-> <<0, 0>>],
                data |-> <<Sample(l, y) + x>>] :
               x \in 0..(layer_size(h)[1] - 1), y \in 0..(layer_size(h)[2] - 1) }

\* the chunks decompress_chunk is applied to: of every variant, also with a layer
\* index, coordinates, a level or a byte count that the headers do not have
SomeChunks ==
    LET layers == 0..MaxHeaders
        pixels == {<<>>, <<7>>, <<7, 8>>}
        tiles == { TileCoordinates(<<x, y>>, level) :
                     x \in 0..MaxWidth, y \in 0..(MaxBlocks \div 2),
                     level \in {<<0, 0>>, <<0, 1>>} }
    IN  { ScanLineChunk(l, y, b) : l \in layers, y \in (-1)..MaxBlocks, b \in pixels }
        \cup { DeepScanLineChunk(l, y, b) : l \in layers, y \in (-1)..MaxBlocks, b \in pixels }
        \cup { TileChunk(l, t, b) : l \in layers, t \in tiles, b \in pixels }
        \cup { DeepTileChunk(l, t, b) : l \in layers, t \in tiles, b \in pixels }

InitChunk ==
    /\ headers \in ChunkHeaderLists
    /\ phase = "function"
    /\ writer = NoWriter
    /\ file = <<>>
    /\ written = <<>>
    /\ call = NoCall
    /\ reader = NoReader
    /\ consumer = NoConsumer
    /\ emitted = <<>>
    /\ blocks = <<>>
    /\ AddedInit

\* decompress_chunk is applied to a chunk
DecompressChunk ==
    /\ phase = "function" /\ pure = NoPure
    /\ \E chunk \in SomeChunks, pedantic \in BOOLEAN :
         pure' = [op |-> "decompress_chunk", chunk |-> chunk, block |-> NoBlock,
                  pedantic |-> pedantic,
                  out |-> decompress_chunk(chunk, MetaDataOf(headers), pedantic)]
    /\ UNCHANGED <<headers, phase, writer, file, written, call, reader, consumer, emitted,
                   blocks, pool, progress_writer, blocks_writer>>

\* a block of the image is compressed to a chunk, and the chunk is decompressed
CompressAndDecompress ==
    /\ phase = "function" /\ pure = NoPure
    /\ \E l \in 0..(Len(headers) - 1) : \E b \in BlocksOfLayer(headers, l) :
         pure' = [op |-> "compress_to_chunk", chunk |-> compress_to_chunk(b, headers),
                  block |-> b, pedantic |-> TRUE,
                  out |-> decompress_chunk(compress_to_chunk(b, headers),
                                           MetaDataOf(headers), TRUE)]
    /\ UNCHANGED <<headers, phase, writer, file, written, call, reader, consumer, emitted,
                   blocks, pool, progress_writer, blocks_writer>>

SpecChunk == InitChunk /\ [][DecompressChunk \/ CompressAndDecompress]_vars

DeepChunkDecompressed ==
    pure.op = "decompress_chunk" /\ pure.chunk.block.type \in DeepBlockTypes

C18_CompressDecompress ==
    pure.op = "compress_to_chunk" => pure.out = [result |-> Ok, block |-> pure.block]

\* a tile of a compressed layer, neither in the first row nor in the first column,
\* was compressed and decompressed
C18_Witness ==
    /\ pure.op = "compress_to_chunk"
    /\ pure.chunk.block.type = "Tile"
    /\ pure.block.index.pixel_position = <<1, 1>>
    /\ headers[pure.block.index.layer + 1].compression = "RLE"
    /\ pure.out.result = Ok

(***************************************************************************)
(* The blocks writer.                                                      *)
(***************************************************************************)
\* the number of running tasks at which compress_all_blocks_parallel waits
MAX_COMPRESSING == 12

LineOrders == {"Increasing", "Decreasing", "Unspecified"}

\* the header lists of an image that is written: scan line layers with a line order
OrderedHeaderLists ==
    { hs \in UNION { [1..n -> [chunk_count : 1..MaxTotalChunks, compression : Compressions,
                               width : {1}, blocks : {"ScanLines"},
                               line_order : LineOrders]] : n \in 1..MaxHeaders } :
        TotalChunkCount(hs) <= MaxTotalChunks }

\* Header::enumerate_ordered_blocks (external), as indices in increasing y order:
\* a header of decreasing line order has its blocks in decreasing y order
enumerate_ordered_blocks(h) ==
    [k \in 1..h.chunk_count |->
        IF h.line_order = "Decreasing" THEN h.chunk_count - k ELSE k - 1]

\* enumerate_ordered_header_block_indices: (index_in_header, BlockIndex) of every
\* block, the headers in order, the blocks of a header in its line order
enumerate_ordered_header_block_indices(hs) ==
    Flatten([l \in 1..Len(hs) |->
        [k \in 1..hs[l].chunk_count |->
            [index_in_header |-> enumerate_ordered_blocks(hs[l])[k],
             block |-> BlockIndexOf(hs, l - 1, enumerate_ordered_blocks(hs[l])[k])]]])

\* the (index, block) pairs of every block of the image, in header and line order
OrderedBlocks(hs) ==
    [k \in 1..TotalChunkCount(hs) |->
        [index |-> enumerate_ordered_header_block_indices(hs)[k].index_in_header,
         block |-> BlockOf(hs, enumerate_ordered_header_block_indices(hs)[k].block.layer,
                           enumerate_ordered_header_block_indices(hs)[k].block
                               .pixel_position[2])]]

\* the permutations of a sequence
OrdersOf(seq) ==
    { [k \in 1..Len(seq) |-> seq[f[k]]] :
        f \in { g \in [1..Len(seq) -> 1..Len(seq)] :
                  \A i, j \in 1..Len(seq) : g[i] = g[j] => i = j } }

\* the blocks iterator, had it been read from its end
blocks_next_back(input, k) == input[Len(input) - k + 1]

\* the k-th item of the blocks iterator given to the blocks writer
blocks_next(input, k) == input[k]

\* a record of one write_chunk call that the blocks writer made
WriteCall(index_in_header_increasing_y, chunk, result) ==
    [index |-> index_in_header_increasing_y, chunk |-> chunk, result |-> result]

\* BlocksWriter::compress_block: the chunk writer and the sink after the call, the
\* call of write_chunk, and its result
compress_block(w, sink, hs, index_in_header_increasing_y, block) ==
    [written |-> write_chunk(w, sink, index_in_header_increasing_y,
                             compress_to_chunk(block, hs)),
     call |-> WriteCall(index_in_header_increasing_y, compress_to_chunk(block, hs),
                        write_chunk(w, sink, index_in_header_increasing_y,
                                    compress_to_chunk(block, hs)).result)]

\* BlocksWriter::compress_all_blocks_sequential as a function of the chunk writer
\* and the blocks from item k on: the write_chunk calls, the sink and the result
RECURSIVE compress_all_blocks_sequential(_, _, _, _, _, _)
compress_all_blocks_sequential(w, sink, hs, input, k, calls) ==
    IF k > Len(input) THEN [writer |-> w, sink |-> sink, calls |-> calls, result |-> Ok]
    ELSE IF compress_block(w, sink, hs, input[k].index, input[k].block).written.result # Ok
        THEN [writer |-> w, sink |-> sink,
              calls |-> Append(calls,
                          compress_block(w, sink, hs, input[k].index, input[k].block).call),
              result |-> compress_block(w, sink, hs, input[k].index,
                                        input[k].block).written.result]
    ELSE compress_all_blocks_sequential(
             compress_block(w, sink, hs, input[k].index, input[k].block).written.writer,
             compress_block(w, sink, hs, input[k].index, input[k].block).written.sink,
             hs, input, k + 1,
             Append(calls, compress_block(w, sink, hs, input[k].index, input[k].block).call))

\* no blocks writer call yet
IdleBlocksWriter ==
    [kind |-> "None", input |-> <<>>, next |-> 1, calls |-> <<>>, latest |-> 0,
     result |-> NoResult,
     sorted |-> [kind |-> "None", pending |-> <<>>, unwritten_chunk_indices |-> 0]]

InitBlocks ==
    /\ headers \in OrderedHeaderLists
    /\ phase = "blocks"
    /\ writer = new_for_buffered(headers).writer
    /\ file = new_for_buffered(headers).sink
    /\ written = <<>>
    /\ call = NoCall
    /\ reader = NoReader
    /\ consumer = NoConsumer
    /\ emitted = <<>>
    /\ blocks = <<>>
    /\ pool = NoPool
    /\ progress_writer = NoProgressWriter
    /\ blocks_writer = IdleBlocksWriter
    /\ pure = NoPure

\* compress_all_blocks_sequential or compress_all_blocks_parallel is called with the
\* blocks of the image in some order; compress_all_blocks_parallel returns
\* compress_all_blocks_sequential(blocks) whatever the compression of the headers
CompressAllBlocks ==
    /\ phase = "blocks" /\ blocks_writer.kind = "None"
    /\ \E function \in {"compress_all_blocks_sequential", "compress_all_blocks_parallel"} :
       \E input \in OrdersOf(OrderedBlocks(headers)) :
         LET has_compression ==
                 \E k \in 1..Len(headers) : headers[k].compression # "Uncompressed"
         IN  blocks_writer' =
                 [IdleBlocksWriter EXCEPT
                    !.kind = IF function = "compress_all_blocks_parallel"
                                    /\ (~has_compression \/ TRUE)
                                 THEN "parallel as sequential"
                             ELSE "sequential",
                    !.input = input]
    /\ UNCHANGED <<headers, phase, writer, file, written, call, reader, consumer, emitted,
                   blocks, pool, progress_writer, pure>>

\* one round of the loop of compress_all_blocks_sequential, or its return
CompressBlock ==
    /\ phase = "blocks"
    /\ blocks_writer.kind \in {"sequential", "parallel as sequential"}
    /\ IF blocks_writer.next > Len(blocks_writer.input)
           THEN /\ blocks_writer' = [blocks_writer EXCEPT !.result = Ok]
                /\ phase' = "written"
                /\ UNCHANGED <<writer, file>>
       ELSE LET item == blocks_next(blocks_writer.input, blocks_writer.next)
                c == compress_block(writer, file, headers, item.index, item.block)
            IN  /\ writer' = c.written.writer
                /\ file' = c.written.sink
                /\ blocks_writer' = [blocks_writer EXCEPT
                                       !.next = @ + 1,
                                       !.calls = Append(@, c.call),
                                       !.result = IF c.written.result = Ok THEN NoResult
                                                  ELSE c.written.result]
                /\ phase' = IF c.written.result = Ok THEN phase ELSE "failed"
    /\ UNCHANGED <<headers, written, call, reader, consumer, emitted, blocks,
                   pool, progress_writer, pure>>

SpecBlocks == InitBlocks /\ [][CompressAllBlocks \/ CompressBlock]_vars

\* the blocks of the file, read back in file order by a sequential reader
FileBlocks ==
    decompress_all(all_chunks(read_from_buffered(file).reader, file, FALSE).reader,
                   file, FALSE, <<>>).blocks

\* the y coordinates of the blocks of layer l among the blocks bs, in their order
LinesOfLayer(bs, l) ==
    LET of_layer == SelectSeq(bs, LAMBDA b : b.index.layer = l)
    IN  [k \in 1..Len(of_layer) |-> of_layer[k].index.pixel_position[2]]

StrictlyDecreasing(ys) == \A k \in 1..(Len(ys) - 1) : ys[k] > ys[k + 1]

\* every header of decreasing line order has its chunks in the file in strictly
\* decreasing y order
DecreasingInFile ==
    \A l \in 1..Len(headers) :
        headers[l].line_order = "Decreasing" =>
            StrictlyDecreasing(LinesOfLayer(FileBlocks, l - 1))

ParallelWritten ==
    phase = "written" /\ blocks_writer.kind = "parallel as sequential"

\* C20 as stated: for a header of line order Decreasing, when the blocks are passed
\* to compress_all_blocks_parallel in any permutation, the chunks of the file, read
\* back in file order, are in strictly decreasing y order.
C20_DecreasingForAnyOrder == ParallelWritten => DecreasingInFile

\* C20, amended: the chunks of the file are in the order in which the blocks were
\* passed to compress_all_blocks_parallel; those of a header of line order
\* Decreasing are in strictly decreasing y order when the blocks are passed in the
\* order of enumerate_ordered_header_block_indices.
C20_FileOrderIsInputOrder ==
    ParallelWritten =>
        /\ FileBlocks = [k \in 1..Len(blocks_writer.input) |-> blocks_writer.input[k].block]
        /\ blocks_writer.input = OrderedBlocks(headers) => DecreasingInFile

\* the blocks of a layer of decreasing line order, of more than one chunk, were
\* passed in the enumerated order and written
C20_Witness ==
    /\ ParallelWritten
    /\ blocks_writer.input = OrderedBlocks(headers)
    /\ \E l \in 1..Len(headers) :
           headers[l].line_order = "Decreasing" /\ headers[l].chunk_count > 1
    /\ Len(FileBlocks) = TotalChunkCount(headers)

(***************************************************************************)
(* The worker pool of compress_all_blocks_parallel: the statements after   *)
(* the early return, with the SortedBlocksWriter.                          *)
(***************************************************************************)
\* SortedBlocksWriter::new: None if no header requires sorting
SortedBlocksWriter_new(total_chunk_count, hs) ==
    IF \E k \in 1..Len(hs) : hs[k].line_order # "Unspecified"
        THEN [kind |-> "Some", pending_chunks |-> <<>>,
              unwritten_chunk_indices |-> [start |-> 0, end |-> total_chunk_count]]
    ELSE [kind |-> "None", pending_chunks |-> <<>>,
          unwritten_chunk_indices |-> [start |-> 0, end |-> 0]]

\* BTreeMap::insert
MapInsert(map, key, value) ==
    [k \in DOMAIN map \cup {key} |-> IF k = key THEN value ELSE map[k]]

\* BTreeMap::remove
MapRemove(map, key) == [k \in DOMAIN map \ {key} |-> map[k]]

\* the loop of SortedBlocksWriter::write_or_stash_chunk, with the closure that
\* compress_all_blocks_parallel passes: every chunk that leaves the map is written
\* with self.chunks_writer.write_chunk(chunk_y_index, chunk)
RECURSIVE write_pending(_, _, _, _, _)
write_pending(sorted, chunk_y_index, w, sink, calls) ==
    IF ~(/\ sorted.unwritten_chunk_indices.start < sorted.unwritten_chunk_indices.end
         /\ sorted.unwritten_chunk_indices.start \in DOMAIN sorted.pending_chunks)
        THEN [sorted |-> sorted, writer |-> w, sink |-> sink, calls |-> calls, result |-> Ok]
    ELSE IF write_chunk(w, sink, chunk_y_index,
                        sorted.pending_chunks[sorted.unwritten_chunk_indices.start]).result
              # Ok
        THEN [sorted |-> [sorted EXCEPT !.pending_chunks =
                             MapRemove(@, sorted.unwritten_chunk_indices.start)],
              writer |-> w, sink |-> sink,
              calls |-> Append(calls,
                  WriteCall(chunk_y_index,
                      sorted.pending_chunks[sorted.unwritten_chunk_indices.start],
                      write_chunk(w, sink, chunk_y_index,
                          sorted.pending_chunks[sorted.unwritten_chunk_indices.start])
                          .result)),
              result |-> write_chunk(w, sink, chunk_y_index,
                             sorted.pending_chunks[sorted.unwritten_chunk_indices.start])
                             .result]
    ELSE write_pending(
             [sorted EXCEPT !.pending_chunks =
                                MapRemove(@, sorted.unwritten_chunk_indices.start),
                            !.unwritten_chunk_indices.start = @ + 1],
             chunk_y_index,
             write_chunk(w, sink, chunk_y_index,
                 sorted.pending_chunks[sorted.unwritten_chunk_indices.start]).writer,
             write_chunk(w, sink, chunk_y_index,
                 sorted.pending_chunks[sorted.unwritten_chunk_indices.start]).sink,
             Append(calls,
                 WriteCall(chunk_y_index,
                     sorted.pending_chunks[sorted.unwritten_chunk_indices.start], Ok)))

\* write_or_stash_chunk, had it written every chunk as it arrives
write_or_stash_chunk_unsorted(sorted, chunk_index, compressed_chunk, chunk_y_index, w, sink) ==
    [sorted |-> [sorted EXCEPT !.unwritten_chunk_indices.start = @ + 1],
     writer |-> write_chunk(w, sink, chunk_y_index, compressed_chunk).writer,
     sink |-> write_chunk(w, sink, chunk_y_index, compressed_chunk).sink,
     calls |-> <<WriteCall(chunk_y_index, compressed_chunk,
                           write_chunk(w, sink, chunk_y_index, compressed_chunk).result)>>,
     result |-> write_chunk(w, sink, chunk_y_index, compressed_chunk).result]

\* SortedBlocksWriter::write_or_stash_chunk with that closure
write_or_stash_chunk(sorted, chunk_index, compressed_chunk, chunk_y_index, w, sink) ==
    write_pending([sorted EXCEPT !.pending_chunks =
                       MapInsert(@, chunk_index, compressed_chunk)],
                  chunk_y_index, w, sink, <<>>)

\* what compress_all_blocks_parallel does with a received result
write_received(sorted, m, w, sink) ==
    IF sorted.kind = "Some"
        THEN write_or_stash_chunk(sorted, m.chunk_file_index, m.chunk, m.chunk_y_index,
                                  w, sink)
    ELSE [sorted |-> sorted,
          writer |-> write_chunk(w, sink, m.chunk_y_index, m.chunk).writer,
          sink |-> write_chunk(w, sink, m.chunk_y_index, m.chunk).sink,
          calls |-> <<WriteCall(m.chunk_y_index, m.chunk,
                                write_chunk(w, sink, m.chunk_y_index, m.chunk).result)>>,
          result |-> write_chunk(w, sink, m.chunk_y_index, m.chunk).result]

\* the orders in which the blocks of an image are given to the blocks writer: any
\* order for a small image, the order of the file for a long one
InputOrders(hs) ==
    IF TotalChunkCount(hs) > MaxTotalChunks THEN {OrderedBlocks(hs)}
    ELSE OrdersOf(OrderedBlocks(hs))

\* the numbers of threads of the pool that writes an image: one thread for a
\* long image
PoolThreads(hs) ==
    IF TotalChunkCount(hs) > MaxTotalChunks THEN {1} ELSE 1..MaxThreads

\* the test of the inner loop, had it let one more task run
pool_is_full_late(pl) == pl.currently_running > MAX_COMPRESSING

\* the test of the inner loop of compress_all_blocks_parallel
pool_is_full(pl) == pl.currently_running >= MAX_COMPRESSING

\* a thread of the pool is free for the task: the pool starts the tasks in the
\* order they were spawned, each on a thread of its own until it has sent
thread_runs(pl, t) ==
    Cardinality({u \in pl.running : u.block_file_index < t.block_file_index}) < pl.threads

\* compress_all_blocks_parallel past its early return, for headers with compression
PoolStart ==
    /\ phase = "blocks" /\ blocks_writer.kind = "None"
    /\ \E k \in 1..Len(headers) : headers[k].compression # "Uncompressed"
    /\ \E input \in InputOrders(headers) :
         blocks_writer' =
             [IdleBlocksWriter EXCEPT
                !.kind = "pool", !.input = input,
                !.sorted = SortedBlocksWriter_new(total_chunks_count(writer), headers)]
    /\ \E threads \in PoolThreads(headers) : pool' = [NoPool EXCEPT !.threads = threads]
    /\ UNCHANGED <<headers, phase, writer, file, written, call, reader, consumer, emitted,
                   blocks, progress_writer, pure>>

\* a round of the loop over the blocks, fewer than 12 tasks running: spawn the task
PoolSpawn ==
    /\ phase = "blocks" /\ blocks_writer.kind = "pool"
    /\ blocks_writer.next <= Len(blocks_writer.input)
    /\ ~pool_is_full(pool)
    /\ pool' = [pool EXCEPT
                  !.running = @ \cup
                      {[block_file_index |-> blocks_writer.next - 1,
                        block_y_index |-> blocks_next(blocks_writer.input,
                                                      blocks_writer.next).index,
                        block |-> blocks_next(blocks_writer.input,
                                              blocks_writer.next).block]},
                  !.spawned = @ + 1,
                  !.currently_running = @ + 1]
    /\ blocks_writer' = [blocks_writer EXCEPT !.next = @ + 1]
    /\ UNCHANGED <<headers, phase, writer, file, written, call, reader, consumer, emitted,
                   blocks, progress_writer, pure>>

\* a task compresses its block and sends (file index, y index, chunk)
PoolCompress ==
    /\ phase = "blocks" /\ blocks_writer.kind = "pool"
    /\ \E t \in pool.running :
         /\ thread_runs(pool, t)
         /\ pool' = [pool EXCEPT
                    !.running = @ \ {t},
                    !.channel = Append(@, [chunk_file_index |-> t.block_file_index,
                                           chunk_y_index |-> t.block_y_index,
                                           chunk |-> compress_to_chunk(t.block, headers)])]
    /\ UNCHANGED <<headers, phase, writer, file, written, call, reader, consumer, emitted,
                   blocks, progress_writer, blocks_writer, pure>>

\* recv.recv(), in the loop when 12 tasks are running or after the loop: the chunk
\* is written or stashed
PoolReceive ==
    /\ phase = "blocks" /\ blocks_writer.kind = "pool"
    /\ \/ /\ blocks_writer.next <= Len(blocks_writer.input)
          /\ pool_is_full(pool)
       \/ /\ blocks_writer.next > Len(blocks_writer.input)
          /\ pool.currently_running > 0
    /\ pool.channel # <<>>
    /\ LET r == write_received(blocks_writer.sorted, Head(pool.channel), writer, file)
       IN  /\ writer' = r.writer
           /\ file' = r.sink
           /\ blocks_writer' = [blocks_writer EXCEPT
                                  !.sorted = r.sorted,
                                  !.calls = @ \o r.calls,
                                  !.latest = Len(r.calls),
                                  !.result = IF r.result = Ok THEN NoResult ELSE r.result]
           /\ pool' = [pool EXCEPT !.channel = Tail(@),
                                   !.currently_running =
                                       IF r.result = Ok THEN @ - 1 ELSE @]
           /\ phase' = IF r.result = Ok THEN phase ELSE "failed"
    /\ UNCHANGED <<headers, written, call, reader, consumer, emitted, blocks,
                   progress_writer, pure>>

\* no block is left and no task is running: Ok(())
PoolReturn ==
    /\ phase = "blocks" /\ blocks_writer.kind = "pool"
    /\ blocks_writer.next > Len(blocks_writer.input)
    /\ pool.currently_running = 0
    /\ blocks_writer' = [blocks_writer EXCEPT !.result = Ok]
    /\ phase' = "written"
    /\ UNCHANGED <<headers, writer, file, written, call, reader, consumer, emitted, blocks,
                   pool, progress_writer, pure>>

SpecPool ==
    InitBlocks /\ [][PoolStart \/ PoolSpawn \/ PoolCompress \/ PoolReceive \/ PoolReturn]_vars

\* the number of chunks of an image with more blocks than the pool takes at once
LongImageChunks == 14

\* an image of one compressed layer of that many chunks is written
InitPoolLong ==
    /\ headers \in { <<[chunk_count |-> LongImageChunks, compression |-> "RLE", width |-> 1,
                         blocks |-> "ScanLines", line_order |-> o]>> : o \in LineOrders }
    /\ phase = "blocks"
    /\ writer = new_for_buffered(headers).writer
    /\ file = new_for_buffered(headers).sink
    /\ written = <<>>
    /\ call = NoCall
    /\ reader = NoReader
    /\ consumer = NoConsumer
    /\ emitted = <<>>
    /\ blocks = <<>>
    /\ pool = NoPool
    /\ progress_writer = NoProgressWriter
    /\ blocks_writer = IdleBlocksWriter
    /\ pure = NoPure

SpecPoolLong ==
    InitPoolLong
      /\ [][PoolStart \/ PoolSpawn \/ PoolCompress \/ PoolReceive \/ PoolReturn]_vars

\* what compress_all_blocks_sequential does with the same blocks
SequentialWrite ==
    compress_all_blocks_sequential(new_for_buffered(headers).writer,
                                   new_for_buffered(headers).sink,
                                   headers, blocks_writer.input, 1, <<>>)

\* C19: when a header demands an explicit line order, the worker pool of
\* compress_all_blocks_parallel with its SortedBlocksWriter makes, for every order
\* in which the results arrive, the same sequence of write_chunk calls as
\* compress_all_blocks_sequential for the same blocks, so the file has the same bytes.
C19_SameWriteCalls ==
    (/\ blocks_writer.kind = "pool" /\ blocks_writer.sorted.kind = "Some"
     /\ phase \in {"written", "failed"}) =>
        /\ blocks_writer.result = SequentialWrite.result
        /\ blocks_writer.calls = SequentialWrite.calls
        /\ file = SequentialWrite.sink

(***************************************************************************)
(* Drivers on damaged files, with a closure that may fail, and drivers     *)
(* that are dropped while tasks are running.                               *)
(***************************************************************************)
\* the damages of a chunk of an input file: a y coordinate below the layer, which
\* decompress_chunk rejects, and a negative byte count, which Chunk::read rejects
Faults == {"y", "size"}

\* the bytes of the chunk in a file, damaged or not
FaultyChunkBytes(chunk, hs, fault) ==
    IF fault = "y"
        THEN ChunkBytes([chunk EXCEPT !.block.y_coordinate =
                                          hs[chunk.layer_index + 1].chunk_count], Len(hs))
    ELSE IF fault = "size"
        THEN (IF Len(hs) # 1 THEN ToLE(chunk.layer_index, I32_BYTE_SIZE) ELSE <<>>)
             \o ToLE(chunk.block.y_coordinate, I32_BYTE_SIZE)
             \o ToLE(0 - 1, I32_BYTE_SIZE)
             \o chunk.block.compressed_pixels
    ELSE ChunkBytes(chunk, Len(hs))

\* the file of the image with chunk number bad damaged (0: no chunk)
FaultyFile(hs, bad, fault, trailing) ==
    EncodeMetaData(hs)
    \o Flatten([k \in 1..TotalChunkCount(hs) |-> ToLE(ChunkStart(hs, k), U64_BYTE_SIZE)])
    \o Flatten([k \in 1..TotalChunkCount(hs) |->
                  FaultyChunkBytes(ImageChunks(hs)[k], hs, IF k = bad THEN fault ELSE "none")])
    \o Zeros(trailing)

\* the images whose files are damaged: of MaxTotalChunks chunks, some compressed
FaultyHeaderLists ==
    { hs \in HeaderLists :
        /\ TotalChunkCount(hs) = MaxTotalChunks
        /\ \E k \in 1..Len(hs) : hs[k].compression # "Uncompressed" }

InitFaulty ==
    /\ headers \in FaultyHeaderLists
    /\ phase = "file"
    /\ writer = NoWriter
    /\ \E bad \in 0..TotalChunkCount(headers), fault \in Faults,
          trailing \in 0..MaxTrailingBytes :
           file = FaultyFile(headers, bad, fault, trailing)
    /\ written = <<>>
    /\ call = NoCall
    /\ reader = NoReader
    /\ \E n \in 0..TotalChunkCount(headers) :
           consumer = [NoConsumer EXCEPT !.insert_fails_at = n]
    /\ emitted = <<>>
    /\ blocks = <<>>
    /\ AddedInit

\* the receiver of the results is gone: decompress_parallel has returned, or the
\* ParallelBlockDecompressor was dropped
ReceiverDropped ==
    \/ consumer.kind = "Parallel" /\ pool.pc = "done"
    \/ pool.dropped

\* the caller drops the ParallelBlockDecompressor between two calls of next, or
\* after the call that made it stop
DropDecompressor ==
    /\ consumer.kind = "ParallelDecompressor"
    /\ pool.pc \in {"idle", "done"} /\ ~pool.dropped
    /\ pool' = [pool EXCEPT !.dropped = TRUE, !.pc = "done"]
    /\ phase' = "done"
    /\ UNCHANGED <<headers, writer, file, written, call, reader, consumer, emitted,
                   blocks, progress_writer, blocks_writer, pure>>

\* what a task does when send returns an error: the task of decompress_parallel
\* prints a line, the task of ParallelBlockDecompressor has expect("thread error")
send_failed(kind) ==
    IF kind = "Parallel" THEN "printed" ELSE "panicked"

\* a task decompresses its chunk and sends the result after the receiver is gone
WorkerAfterDrop ==
    /\ ReceiverDropped
    /\ \E t \in pool.running :
         pool' = [pool EXCEPT
                    !.running = @ \ {t},
                    !.undelivered = @ \cup {[id |-> t.id,
                                             outcome |-> send_failed(consumer.kind)]}]
    /\ UNCHANGED <<headers, phase, writer, file, written, call, reader, consumer, emitted,
                   blocks, progress_writer, blocks_writer, pure>>

FaultyNext ==
    \/ ReadFromBuffered
    \/ AllChunks
    \/ FilterChunks
    \/ DecompressSequential
    \/ DecompressParallel
    \/ ParallelRead
    \/ ParallelRecv
    \/ ParallelDecompressorFill
    \/ ParallelDecompressorRecv
    \/ WorkerDecompress
    \/ DropDecompressor
    \/ WorkerAfterDrop

SpecFaulty == InitFaulty /\ [][FaultyNext]_vars

\* the chunks that the reader has returned
ChunksRead ==
    LET items == SelectSeq(emitted, LAMBDA e : e.item.kind = "Ok")
    IN  [i \in 1..Len(items) |-> items[i].item.chunk]

\* no read has failed, no chunk that was read fails to decompress, and
\* insert_block has not returned an error
NothingFailed ==
    /\ \A i \in 1..Len(emitted) : emitted[i].item.kind \in {"Ok", "None"}
    /\ \A i \in 1..Len(ChunksRead) :
         decompress_chunk(ChunksRead[i], reader.meta_data, consumer.pedantic).result = Ok
    /\ consumer.insert_fails_at \notin 1..consumer.inserted

\* every chunk of the reader was read, and its block inserted exactly once
AllInsertedOnce ==
    /\ Len(ChunksRead) = expected_chunk_count(reader)
    /\ consumer.inserted = Len(blocks)
    /\ BagOf(blocks) =
         BagOf([i \in 1..Len(ChunksRead) |->
                  decompress_chunk(ChunksRead[i], reader.meta_data, consumer.pedantic).block])

\* C21: decompress_sequential and decompress_parallel return Ok only if every
\* chunk of the reader was read, decompressed and inserted exactly once without an
\* error; a failed read, a failed decompression or a failed insert_block makes them
\* return an error.
C21_ErrorsNotSwallowed ==
    (phase = "done" /\ consumer.kind \in {"Sequential", "Parallel"}) =>
        /\ consumer.result = Ok <=> NothingFailed
        /\ consumer.result = Ok => AllInsertedOnce
        /\ consumer.result # Ok =>
             consumer.result.kind \in {"Invalid", "NotSupported", "Io", "Aborted"}

C21_Witness ==
    /\ phase = "done" /\ consumer.kind = "Parallel"
    /\ consumer.result = InsertError
    /\ Len(blocks) = 1 /\ pool.running # {}

\* C22: once a parallel driver is gone (decompress_parallel has returned early, a
\* ParallelBlockDecompressor was dropped) while tasks are running, no task is
\* spawned any more, and every running task still completes: its result is
\* dropped and the task neither fails nor panics when it sends.
C22_DroppedSilently ==
    ReceiverDropped =>
        /\ pool.spawned <= Len(ChunksRead)
        /\ \A u \in pool.undelivered : u.outcome # "panicked"

(***************************************************************************)
(* Offset tables at the bounds of validate_offset_tables.                  *)
(***************************************************************************)
\* the byte position up to which validate_offset_tables accepts an offset
EndByte(hs) ==
    ChunksStartByte(hs) + SumSeq([k \in 1..Len(hs) |-> max_pixel_file_bytes(hs[k])])

\* the offsets of these files: the first and the last offset of the range of the
\* chunks, and the offsets next to them
BoundaryOffsets(hs) ==
    {ChunksStartByte(hs) - 1, ChunksStartByte(hs), EndByte(hs), EndByte(hs) + 1}

InitOffsets ==
    /\ headers \in HeaderLists
    /\ phase = "file"
    /\ writer = NoWriter
    /\ \E offsets \in [1..TotalChunkCount(headers) -> BoundaryOffsets(headers)] :
           file = InputFile(headers, offsets, 0)
    /\ written = <<>>
    /\ call = NoCall
    /\ reader = NoReader
    /\ consumer = NoConsumer
    /\ emitted = <<>>
    /\ blocks = <<>>
    /\ AddedInit

SpecOffsets == InitOffsets /\ [][ReadFromBuffered \/ AllChunks \/ FilterChunks]_vars

\* C23: a pedantic all_chunks or filter_chunks fails with Invalid("offset table")
\* exactly if some offset of the tables is below the byte position after the
\* tables, or above that position plus the sum of max_pixel_file_bytes of the
\* headers; without pedantic, no offset makes them fail.
C23_OffsetTableValidated ==
    call.op \in {"all_chunks", "filter_chunks"} =>
        /\ call.result = Invalid("offset table")
             <=> /\ call.pedantic
                 /\ \E k \in 1..TotalChunkCount(headers) :
                      \/ TableEntry(k) < ChunksStartByte(headers)
                      \/ TableEntry(k) > EndByte(headers)
        /\ ~call.pedantic => call.result = Ok

C23_Witness ==
    /\ call.op = "filter_chunks" /\ call.pedantic /\ call.result = Ok
    /\ \E k \in 1..TotalChunkCount(headers) : TableEntry(k) = EndByte(headers)
    /\ \E k \in 1..TotalChunkCount(headers) : TableEntry(k) = ChunksStartByte(headers)

\* C24: filter_chunks calls the predicate once for every block of the file,
\* headers in order and blocks in increasing y within a header, with the header
\* index as BlockIndex.layer; the reader expects as many chunks as the predicate
\* accepted blocks, and reads the offset table entries of exactly those blocks.
C24_PredicatePerBlock ==
    (call.op = "filter_chunks" /\ call.result = Ok /\ emitted = <<>>) =>
        /\ Len(call.predicate_calls) = TotalChunkCount(headers)
        /\ { call.predicate_calls[k] : k \in 1..Len(call.predicate_calls) }
             = { b.index : b \in ValidBlocks(headers) }
        /\ \A j, k \in 1..Len(call.predicate_calls) :
             j < k =>
               \/ call.predicate_calls[j].layer < call.predicate_calls[k].layer
               \/ /\ call.predicate_calls[j].layer = call.predicate_calls[k].layer
                  /\ call.predicate_calls[j].pixel_position[2]
                       < call.predicate_calls[k].pixel_position[2]
        /\ expected_chunk_count(reader) = Cardinality(call.filter)
        /\ BagOf(reader.remaining_filtered_chunk_indices)
             = BagOf([k \in 1..Len(SelectSeq(BlocksIncreasingY(headers),
                                             LAMBDA b : b \in call.filter)) |->
                        EntryOf(SelectSeq(BlocksIncreasingY(headers),
                                          LAMBDA b : b \in call.filter)[k])])

C24_Witness ==
    /\ call.op = "filter_chunks" /\ call.result = Ok /\ emitted = <<>>
    /\ Len(headers) = 2 /\ Len(call.predicate_calls) = 3
    /\ Cardinality(call.filter) = 2
    /\ \E b \in call.filter : b[1] = 1

\* the tasks in flight: spawned, and their result not yet received
InFlight == Cardinality(pool.running) + Len(pool.channel)

\* C25: in a ParallelBlockDecompressor the number of tasks in flight is
\* currently_decompressing_count, and it is never above max_parallel_blocks,
\* between any two calls of next and however the tasks complete.
C25_InFlightCounted ==
    (consumer.kind = "ParallelDecompressor" /\ ~pool.dropped) =>
        /\ InFlight = pool.currently_running
        /\ pool.currently_running <= MAX_PARALLEL_BLOCKS

C25_Witness ==
    /\ consumer.kind = "ParallelDecompressor" /\ pool.pc = "recv"
    /\ pool.currently_running = MAX_PARALLEL_BLOCKS
    /\ size_hint(reader) > 0
    /\ Len(pool.channel) = 2

\* the limit of decompress_parallel as the documentation states it
RunningCap == Min(Max(pool.threads, 1), expected_chunk_count(reader)) + 2

\* C26 as stated: in decompress_parallel the tasks in flight never exceed
\* min(threads, chunk count) + 2, and the caller pulls the next chunk from the
\* reader only once the results are drained to below that limit.
C26_DrainedBeforeRead ==
    /\ [](consumer.kind = "Parallel" => InFlight <= RunningCap)
    /\ [][(consumer.kind = "Parallel" /\ emitted' # emitted)
             => pool.currently_running < RunningCap]_vars

\* C26: in decompress_parallel the tasks in flight are counted by
\* currently_running and never exceed min(threads, chunk count) + 2; the caller
\* pulls the next chunk before it looks at the count, so that it holds one chunk
\* without a task exactly while it drains results at the limit.
C26_CapAndOneChunkHeld ==
    (consumer.kind = "Parallel" /\ phase = "chunks") =>
        /\ InFlight = pool.currently_running
        /\ InFlight <= RunningCap
        /\ Len(ChunksRead) - pool.spawned = (IF pool.pc = "wait" THEN 1 ELSE 0)
        /\ pool.pc = "wait" => pool.currently_running = RunningCap

C26_Witness ==
    /\ consumer.kind = "Parallel" /\ phase = "chunks"
    /\ pool.pc = "wait" /\ pool.threads = 2
    /\ Len(pool.channel) = 1

\* the compression tasks in flight: spawned, and their result not yet received
Compressing == Cardinality(pool.running) + Len(pool.channel)

\* C27: in the worker pool of compress_all_blocks_parallel at most 12 compression
\* tasks are in flight, and the function returns Ok only after the blocks are
\* exhausted and the result of every task was received and written.
C27_AtMostTwelve ==
    blocks_writer.kind = "pool" =>
        /\ Compressing <= MAX_COMPRESSING
        /\ phase = "blocks" => Compressing = pool.currently_running
        /\ blocks_writer.result = Ok =>
             /\ blocks_writer.next > Len(blocks_writer.input)
             /\ Compressing = 0
             /\ Len(blocks_writer.calls) = Len(blocks_writer.input)

C27_Witness ==
    /\ blocks_writer.kind = "pool" /\ phase = "blocks"
    /\ pool.currently_running = MAX_COMPRESSING
    /\ blocks_writer.next <= Len(blocks_writer.input)
    /\ Len(blocks_writer.calls) = 1
    /\ Len(pool.channel) = 2

\* C28: the SortedBlocksWriter hands the chunks to its closure in the order of
\* their file index, 0, 1, 2, ..., in whatever order write_or_stash_chunk gets
\* them; no chunk is handed over before those of a lower index, and once the
\* chunk of the next index arrives, that call hands over every stashed chunk
\* up to the first missing index.
C28_ConsecutiveOrder ==
    (blocks_writer.kind = "pool" /\ blocks_writer.sorted.kind = "Some") =>
        /\ \A i \in 1..Len(blocks_writer.calls) :
             blocks_writer.calls[i].chunk
               = compress_to_chunk(blocks_writer.input[i].block, headers)
        /\ phase # "failed" =>
             /\ blocks_writer.sorted.unwritten_chunk_indices.start = Len(blocks_writer.calls)
             /\ \A k \in DOMAIN blocks_writer.sorted.pending_chunks :
                  k > blocks_writer.sorted.unwritten_chunk_indices.start

C28_Witness ==
    /\ blocks_writer.kind = "pool" /\ blocks_writer.sorted.kind = "Some"
    /\ phase # "failed"
    /\ blocks_writer.latest = 2 /\ Len(blocks_writer.calls) = 2
    /\ DOMAIN blocks_writer.sorted.pending_chunks = {}

\* a parallel driver reads the chunks
ParallelDriver == consumer.kind \in {"Parallel", "ParallelDecompressor"}

\* the latest item of the reader is an error
LastReadFailed ==
    emitted # <<>> /\ emitted[Len(emitted)].item.kind \notin {"Ok", "None"}

\* the result of the driver is the error of the decompression of a chunk it read
FailedDecompression ==
    /\ consumer.result \notin {Ok, NoResult}
    /\ \E i \in 1..Len(ChunksRead) :
         decompress_chunk(ChunksRead[i], reader.meta_data, consumer.pedantic).result
           = consumer.result

\* C29: in the parallel drivers an error of the chunk reader is returned by the
\* call that pulled the item, and no task is spawned for it; an error of
\* decompress_chunk is never returned by the step that reads and spawns, it is
\* sent through the channel and returned by the receive that takes it.
C29_ErrorRoutes ==
    /\ []((ParallelDriver /\ LastReadFailed) =>
            /\ phase = "done"
            /\ consumer.result = [kind |-> emitted[Len(emitted)].item.kind,
                                  msg |-> emitted[Len(emitted)].item.msg]
            /\ pool.spawned = Len(ChunksRead))
    /\ [][(ParallelDriver' /\ FailedDecompression' /\ consumer.result' # consumer.result) =>
            /\ emitted' = emitted
            /\ pool.spawned' = pool.spawned
            /\ pool.channel # <<>>
            /\ Head(pool.channel).result = consumer.result'
            /\ pool.channel' = Tail(pool.channel)]_vars

C29_Witness ==
    /\ ParallelDriver /\ phase = "done" /\ FailedDecompression
    /\ Len(ChunksRead) = 3 /\ blocks = <<>>
    /\ decompress_chunk(ChunksRead[1], reader.meta_data, consumer.pedantic).result # Ok


(***************************************************************************)
(* Termination of the parallel drivers.  The driver thread keeps running,  *)
(* every task of the pool is eventually run and sends its result, and the  *)
(* caller of ParallelBlockDecompressor::next keeps calling until it gets   *)
(* None, also after an item that is an error.                              *)
(***************************************************************************)
\* the images that are decompressed to the end: one that the pool takes at once,
\* and the long one
LiveHeaderLists ==
    { <<[chunk_count |-> n, compression |-> "RLE", width |-> 1, blocks |-> "ScanLines"]>> :
        n \in {MaxTotalChunks, LongFileChunks} }

InitLive ==
    /\ headers \in LiveHeaderLists
    /\ phase = "file"
    /\ writer = NoWriter
    /\ \E bad \in 0..1, fault \in Faults, trailing \in 0..MaxTrailingBytes :
           file = FaultyFile(headers, bad, fault, trailing)
    /\ written = <<>>
    /\ call = NoCall
    /\ reader = NoReader
    /\ \E n \in {0, 2} :
           consumer = [NoConsumer EXCEPT !.insert_fails_at = n]
    /\ emitted = <<>>
    /\ blocks = <<>>
    /\ AddedInit

\* the reader's last item was Invalid("end of file expected"): the reader has
\* consumed nothing and returns it again on the next call
EndOfFileExpected ==
    /\ emitted # <<>>
    /\ emitted[Len(emitted)].item = SomeErr(Invalid("end of file expected"))

\* the caller of ParallelBlockDecompressor::next got Some(Err(..)) and calls next
\* again: the decompressor keeps its reader, its counter and its channel.  The
\* log of the reader's items holds Invalid("end of file expected") once, however
\* often the reader returns it.
NextAfterError ==
    /\ consumer.kind = "ParallelDecompressor" /\ phase = "done"
    /\ pool.pc = "done" /\ ~pool.dropped
    /\ consumer.result \notin {Ok, NoResult}
    /\ phase' = "chunks"
    /\ pool' = [pool EXCEPT !.pc = "idle"]
    /\ consumer' = [consumer EXCEPT !.result = NoResult]
    /\ emitted' = IF EndOfFileExpected THEN SubSeq(emitted, 1, Len(emitted) - 1)
                  ELSE emitted
    /\ UNCHANGED <<headers, writer, file, written, call, reader, blocks,
                   progress_writer, blocks_writer, pure>>

\* a task decompresses its chunk and sends the result while the caller holds the
\* error that next returned: the receiver is alive, the result enters the channel
WorkerBetweenCalls ==
    /\ consumer.kind = "ParallelDecompressor" /\ phase = "done" /\ ~pool.dropped
    /\ \E t \in pool.running :
         pool' = [pool EXCEPT
                    !.running = @ \ {t},
                    !.channel = Append(@, decompress_chunk(t.chunk, reader.meta_data,
                                                           consumer.pedantic))]
    /\ UNCHANGED <<headers, phase, writer, file, written, call, reader, consumer, emitted,
                   blocks, progress_writer, blocks_writer, pure>>

LiveNext ==
    \/ ReadFromBuffered
    \/ AllChunks
    \/ DecompressParallel
    \/ DecompressSequential
    \/ ParallelRead
    \/ ParallelRecv
    \/ ParallelDecompressorFill
    \/ ParallelDecompressorRecv
    \/ NextAfterError
    \/ WorkerDecompress
    \/ WorkerBetweenCalls

\* where decompress_sequential, or the caller of next, is about to make its next
\* call: the step is possible in every such state
SequentialRuns == phase = "chunks" /\ consumer.kind = "Sequential"
CallerCalls ==
    phase = "chunks" /\ consumer.kind = "ParallelDecompressor" /\ pool.pc = "idle"

\* the driver thread is not stopped, the caller keeps calling next, and the pool
\* runs every task that was spawned.  Weak fairness of the two steps that read
\* chunks in a loop is written with the condition that enables them.
LiveFairness ==
    /\ []<>(~SequentialRuns) \/ []<><<DecompressSequential>>_vars
    /\ []<>(~CallerCalls) \/ []<><<ParallelDecompressorFill>>_vars
    /\ WF_vars(ParallelRead)
    /\ WF_vars(ParallelRecv)
    /\ WF_vars(ParallelDecompressorRecv)
    /\ WF_vars(NextAfterError)
    /\ WF_vars(WorkerDecompress \/ WorkerBetweenCalls)

SpecLive == InitLive /\ [][LiveNext]_vars /\ LiveFairness

\* the driver stands at a blocking receive
AtReceive == pool.pc \in {"recv", "wait", "drain"}

\* a call of next returns once it stands at its receive, and decompress_parallel
\* returns
CallsReturn ==
    /\ (consumer.kind = "ParallelDecompressor" /\ pool.pc = "recv")
           ~> (pool.pc \in {"idle", "done"})
    /\ (consumer.kind \in {"Parallel", "Sequential"}) ~> (phase = "done")

\* C30: a parallel driver stands at a receive only while a task is running or a
\* result is in the channel; a call of ParallelBlockDecompressor::next that
\* stands at its receive returns; a caller that keeps calling next gets None
\* with no task left in flight; and decompress_parallel returns
C30_ParallelTerminates ==
    /\ [](AtReceive => pool.currently_running > 0 /\ InFlight > 0)
    /\ CallsReturn
    /\ (consumer.kind = "ParallelDecompressor")
           ~> (phase = "done" /\ consumer.result = Ok /\ InFlight = 0)

\* the calls of next end with None, or they end in Invalid("end of file expected"),
\* which the pedantic reader returns again on every call
ParallelEndsOrEndOfFileExpected ==
    /\ [](AtReceive => pool.currently_running > 0 /\ InFlight > 0)
    /\ CallsReturn
    /\ (consumer.kind = "ParallelDecompressor")
           ~> (/\ phase = "done"
               /\ \/ consumer.result = Ok /\ InFlight = 0
                  \/ consumer.result = Invalid("end of file expected"))
    /\ [][(/\ consumer.kind = "ParallelDecompressor" /\ pool.pc # "done"
           /\ consumer.result' = Invalid("end of file expected")
           /\ reader.remaining_chunks.start = reader.remaining_chunks.end)
          => /\ reader' = reader
             /\ pool' = [pool EXCEPT !.pc = "done"]]_vars


(***************************************************************************)
(* The length that a ParallelBlockDecompressor reports.                    *)
(***************************************************************************)
\* size_hint of ParallelBlockDecompressor: the remaining chunks of the reader
\* and the tasks that are counted as running
ParallelBlockDecompressor_size_hint(r, pl) == size_hint(r) + pl.currently_running

\* the length that the decompressor reports in this state
ReportedLength == ParallelBlockDecompressor_size_hint(reader, pool)

\* a step of a call of next of the ParallelBlockDecompressor
NextCallStep ==
    /\ consumer.kind' = "ParallelDecompressor"
    /\ pool.pc \in {"none", "idle", "recv"}
    /\ pool'.pc \in {"recv", "idle", "done"}
    /\ pool'.pc # pool.pc

\* what a step of a call of next does to the reported length, given that the
\* errors in except are left out: a call that returns an item lowers the length
\* by one, a call returns None only at length 0, and the refill loop before the
\* receive keeps the length
LengthCountsItems(except) ==
    NextCallStep /\ consumer.result' \notin except =>
        IF pool'.pc = "recv" THEN ReportedLength' = ReportedLength
        ELSE IF pool'.pc = "done" /\ consumer.result' = Ok
            THEN ReportedLength = 0 /\ ReportedLength' = 0
        ELSE ReportedLength' = ReportedLength - 1

\* C31: every call of next of a ParallelBlockDecompressor that returns an item,
\* a block or an error, lowers the reported length by one, and a call returns
\* None only when the reported length is 0: the reported length is the number
\* of items still to come
C31_LengthIsItemsToCome == [][LengthCountsItems({})]_vars

\* the same, except for the calls that return Invalid("end of file expected")
LengthIsItemsToComeUnlessEndOfFile ==
    [][LengthCountsItems({Invalid("end of file expected")})]_vars

\* a call has returned a read error other than the one at the end of the file,
\* and a later call has returned None
LengthAfterReadError ==
    /\ consumer.kind = "ParallelDecompressor" /\ phase = "done" /\ consumer.result = Ok
    /\ ReportedLength = 0
    /\ \E i \in 1..Len(emitted) : emitted[i].item.kind \notin {"Ok", "None"}


(***************************************************************************)
(* write_chunks_with: the end of the closure.                              *)
(***************************************************************************)
\* the last two lines of write_chunks_with, had complete_meta_data been called
\* whatever the closure returned
write_chunks_with_always_completes(w, sink, closure_result) ==
    IF closure_result # Ok
        THEN [complete_meta_data(w, sink) EXCEPT !.result = closure_result]
    ELSE complete_meta_data(w, sink)

\* the last two lines of write_chunks_with: `write_chunks(meta, &mut writer)?`
\* returns the error of the closure, otherwise complete_meta_data
write_chunks_with_end(w, sink, closure_result) ==
    IF closure_result # Ok
        THEN [sink |-> sink, byte_position |-> w.byte_position, result |-> closure_result]
    ELSE complete_meta_data(w, sink)

\* what the closure can return: Ok, an error of its own, or the error of the
\* write_chunk call it has just made
ClosureResults ==
    {Ok, InsertError}
    \cup (IF call.op = "write_chunk" /\ call.result # Ok THEN {call.result} ELSE {})

\* the closure of write_chunks_with returns, and write_chunks_with with it
ClosureReturns ==
    /\ phase = "writing"
    /\ \E closure_result \in ClosureResults :
         LET e == write_chunks_with_end(writer, file, closure_result)
         IN  /\ file' = e.sink
             /\ writer' = [writer EXCEPT !.byte_position = e.byte_position]
             /\ call' = [NoCall EXCEPT
                           !.op = IF closure_result = Ok THEN "complete_meta_data"
                                  ELSE "closure_failed",
                           !.result = e.result]
             /\ phase' = IF e.result = Ok THEN "file" ELSE "failed"
    /\ UNCHANGED <<headers, written, reader, consumer, emitted, blocks>>
    /\ UNCHANGED added

SpecWriteChunksWith == Init /\ [][WriteChunk \/ ClosureReturns]_vars

\* the bytes of the sink where the offset tables are reserved
OffsetTableRegion ==
    SubSeq(file, writer.chunk_indices_byte_location.start + 1,
           writer.chunk_indices_byte_location.end)

\* the offset tables of the writer as they are written to a file
EncodedOffsetTables ==
    Flatten([l \in 1..Len(writer.chunk_indices_increasing_y) |->
        Flatten([i \in 1..Len(writer.chunk_indices_increasing_y[l]) |->
            ToLE(writer.chunk_indices_increasing_y[l][i], U64_BYTE_SIZE)])])

\* write_chunks_with has returned
Returned == phase \in {"file", "failed"}
ClosureReturnedOk == Returned /\ call.op = "complete_meta_data"
RegionIsZero == OffsetTableRegion = Zeros(Len(OffsetTableRegion))

\* C32 as stated: once write_chunks_with has returned, the offset tables are
\* patched if and only if the closure returned Ok; when the closure failed its
\* error is returned and the region of the offset tables holds only zeros
C32_PatchedIffClosureOk ==
    Returned =>
        /\ ClosureReturnedOk <=> OffsetTableRegion = EncodedOffsetTables /\ ~RegionIsZero
        /\ ~ClosureReturnedOk => call.result # Ok /\ RegionIsZero

\* C32, amended: the offset tables are patched if and only if the closure
\* returned Ok and complete_meta_data found every slot written; when the
\* closure failed its error is returned, and when it returned Ok with a slot
\* still zero Invalid("some chunks are not written yet") is returned; in both
\* cases, and before write_chunks_with returns, the region holds only zeros
C32_PatchedIffCompleted ==
    /\ ~Returned => RegionIsZero
    /\ Returned =>
        /\ (ClosureReturnedOk /\ ~SomeSlotZero(writer))
             <=> (OffsetTableRegion = EncodedOffsetTables /\ ~RegionIsZero)
        /\ (ClosureReturnedOk /\ ~SomeSlotZero(writer)) <=> call.result = Ok
        /\ ~ClosureReturnedOk => call.result \in {InsertError} \cup
                                    {Invalid("too large chunk index"),
                                     Invalid("chunk at this index is already written")}
        /\ (ClosureReturnedOk /\ SomeSlotZero(writer))
             => call.result = Invalid("some chunks are not written yet")
        /\ call.result # Ok => RegionIsZero

\* the closure failed after it had written every chunk of three
C32_Witness ==
    /\ Returned /\ call.op = "closure_failed" /\ call.result = InsertError
    /\ Len(written) = MaxTotalChunks /\ ~SomeSlotZero(writer)
    /\ RegionIsZero


(***************************************************************************)
(* The writer right after its construction.                                *)
(***************************************************************************)
\* the byte position after the meta data, where the offset tables start
OffsetTableStart == Len(EncodeMetaData(headers))

\* no chunk has been written: only rejected write_chunk calls, if any
NothingWritten == phase = "writing" /\ written = <<>>

\* C33: until the first chunk is written every slot is zero, the table of each
\* header has chunk_count slots, total_chunks_count is the sum of the chunk
\* counts, and the writer stands 8 bytes per chunk after the start of the offset
\* tables, at the end of the sink; the first chunk written is recorded at that
\* offset and its bytes start there
C33_FreshWriter ==
    /\ NothingWritten =>
        /\ Len(writer.chunk_indices_increasing_y) = Len(headers)
        /\ \A l \in 1..Len(headers) :
             /\ Len(writer.chunk_indices_increasing_y[l]) = headers[l].chunk_count
             /\ \A i \in 1..headers[l].chunk_count :
                  writer.chunk_indices_increasing_y[l][i] = 0
        /\ writer.chunk_count = TotalChunkCount(headers)
        /\ writer.chunk_indices_byte_location.start = OffsetTableStart
        /\ writer.byte_position = OffsetTableStart + U64_BYTE_SIZE * TotalChunkCount(headers)
        /\ Len(file) = writer.byte_position
        /\ \A k \in (OffsetTableStart + 1)..Len(file) : file[k] = 0
    /\ written # <<>> =>
        /\ written[1].offset = OffsetTableStart + U64_BYTE_SIZE * TotalChunkCount(headers)
        /\ writer.chunk_indices_increasing_y[written[1].chunk.layer_index + 1]
                                            [written[1].index + 1] = written[1].offset
        /\ LET bytes == ChunkBytes(written[1].chunk, Len(headers))
           IN  SubSeq(file, written[1].offset + 1, written[1].offset + Len(bytes)) = bytes

\* the first chunk written to a file of two headers is the last chunk of the
\* second header
C33_Witness ==
    /\ phase = "writing" /\ Len(written) = 1 /\ Len(headers) = 2
    /\ written[1].chunk.layer_index = 1
    /\ written[1].index = headers[2].chunk_count - 1
    /\ written[1].offset = OffsetTableStart + U64_BYTE_SIZE * MaxTotalChunks


(***************************************************************************)
(* The slots of the offset tables.                                         *)
(***************************************************************************)
\* the slots of the offset tables of the writer w, as pairs of header and index
Slots(w) ==
    { s \in (1..MaxHeaders) \X (1..MaxTotalChunks) :
        /\ s[1] <= Len(w.chunk_indices_increasing_y)
        /\ s[2] <= Len(w.chunk_indices_increasing_y[s[1]]) }

SlotValue(w, s) == w.chunk_indices_increasing_y[s[1]][s[2]]

\* C34: a slot that holds a non-zero offset keeps it through every later
\* write_chunk call, accepted or rejected, and through complete_meta_data; no
\* two slots hold the same non-zero offset; and a call sets at most one slot
C34_SlotsWriteOnce ==
    /\ [](\A s, t \in Slots(writer) :
            SlotValue(writer, s) # 0 /\ SlotValue(writer, s) = SlotValue(writer, t) => s = t)
    /\ [][phase = "writing" =>
            /\ Slots(writer') = Slots(writer)
            /\ \A s \in Slots(writer) :
                 SlotValue(writer, s) # 0 => SlotValue(writer', s) = SlotValue(writer, s)
            /\ Cardinality({ s \in Slots(writer) :
                               SlotValue(writer', s) # SlotValue(writer, s) }) <= 1]_vars

\* two slots of different headers are set, and the call after them, for a slot
\* already set, was rejected
C34_Witness ==
    /\ phase = "writing" /\ Len(headers) = 2 /\ Len(written) = 2
    /\ written[1].chunk.layer_index # written[2].chunk.layer_index
    /\ call.op = "write_chunk"
    /\ call.result = Invalid("chunk at this index is already written")
    /\ call.layer = written[1].chunk.layer_index /\ call.index = written[1].index
    /\ SlotValue(writer, <<call.layer + 1, call.index + 1>>) = written[1].offset


(***************************************************************************)
(* The index that the worker-pool path passes to write_chunk.              *)
(***************************************************************************)
\* the index_in_header that the caller supplied with the block of the chunk
SuppliedIndex(chunk) ==
    LET item == CHOOSE it \in { blocks_writer.input[k] : k \in 1..Len(blocks_writer.input) } :
                    compress_to_chunk(it.block, headers) = chunk
    IN  item.index

\* C35: in the worker-pool path every chunk is passed to write_chunk with the
\* index that the caller supplied for the block of that chunk, also a chunk that
\* was stashed and is written when a later result arrives, and no call fails
\* with "chunk at this index is already written"
C35_OwnIndex ==
    blocks_writer.kind = "pool" =>
        /\ \A i \in 1..Len(blocks_writer.calls) :
             blocks_writer.calls[i].index = SuppliedIndex(blocks_writer.calls[i].chunk)
        /\ blocks_writer.result # Invalid("chunk at this index is already written")

\* the same for a pool without a SortedBlocksWriter, where every chunk is written
\* when it is received
OwnIndexWithoutSorting ==
    (blocks_writer.kind = "pool" /\ blocks_writer.sorted.kind = "None")
        => /\ \A i \in 1..Len(blocks_writer.calls) :
                blocks_writer.calls[i].index = SuppliedIndex(blocks_writer.calls[i].chunk)
           /\ blocks_writer.result # Invalid("chunk at this index is already written")

\* a pool without a SortedBlocksWriter has written two chunks that arrived in
\* the reverse of the input order
OwnIndexWithoutSortingReached ==
    /\ blocks_writer.kind = "pool" /\ blocks_writer.sorted.kind = "None"
    /\ phase = "written" /\ Len(blocks_writer.calls) >= 2
    /\ blocks_writer.calls[1].chunk
         = compress_to_chunk(blocks_writer.input[2].block, headers)


(***************************************************************************)
(* SortedBlocksWriter on its own: write_or_stash_chunk is called once for  *)
(* every index, in any order, with a closure that takes the chunks and     *)
(* returns an error at one of its calls, or at none.                       *)
(***************************************************************************)
\* the largest number of chunks given to a SortedBlocksWriter on its own
MaxSortedChunks == 4

\* the chunk that is given with the index k
SortedChunk(k) == ScanLineChunk(0, k, <<k>>)

\* what the closure returns at its call number n
closure_result(fails_at, n) == IF n = fails_at THEN InsertError ELSE Ok

\* the loop of write_or_stash_chunk, had it looked the next chunk up in the map
\* without removing it
RECURSIVE write_or_stash_loop_keeps(_, _, _)
write_or_stash_loop_keeps(sorted, passed, fails_at) ==
    IF ~(/\ sorted.unwritten_chunk_indices.start < sorted.unwritten_chunk_indices.end
         /\ sorted.unwritten_chunk_indices.start \in DOMAIN sorted.pending_chunks)
        THEN [sorted |-> sorted, passed |-> passed, result |-> Ok]
    ELSE IF closure_result(fails_at, Len(passed) + 1) # Ok
        THEN [sorted |-> sorted,
              passed |-> Append(passed,
                            sorted.pending_chunks[sorted.unwritten_chunk_indices.start]),
              result |-> closure_result(fails_at, Len(passed) + 1)]
    ELSE write_or_stash_loop_keeps(
             [sorted EXCEPT !.unwritten_chunk_indices.start = @ + 1],
             Append(passed, sorted.pending_chunks[sorted.unwritten_chunk_indices.start]),
             fails_at)

\* the loop of SortedBlocksWriter::write_or_stash_chunk: while the next unwritten
\* index is in the map, its chunk is removed and passed to the closure, and the
\* index is advanced once the closure has returned Ok
RECURSIVE write_or_stash_loop(_, _, _)
write_or_stash_loop(sorted, passed, fails_at) ==
    IF ~(/\ sorted.unwritten_chunk_indices.start < sorted.unwritten_chunk_indices.end
         /\ sorted.unwritten_chunk_indices.start \in DOMAIN sorted.pending_chunks)
        THEN [sorted |-> sorted, passed |-> passed, result |-> Ok]
    ELSE IF closure_result(fails_at, Len(passed) + 1) # Ok
        THEN [sorted |-> [sorted EXCEPT !.pending_chunks =
                             MapRemove(@, sorted.unwritten_chunk_indices.start)],
              passed |-> Append(passed,
                            sorted.pending_chunks[sorted.unwritten_chunk_indices.start]),
              result |-> closure_result(fails_at, Len(passed) + 1)]
    ELSE write_or_stash_loop(
             [sorted EXCEPT !.pending_chunks =
                                MapRemove(@, sorted.unwritten_chunk_indices.start),
                            !.unwritten_chunk_indices.start = @ + 1],
             Append(passed, sorted.pending_chunks[sorted.unwritten_chunk_indices.start]),
             fails_at)

\* a SortedBlocksWriter for n chunks, the indices 0..n-1 in the order in which
\* they will be given to it, and the call at which the closure fails
InitSorted ==
    /\ \E n \in 1..MaxSortedChunks :
         /\ headers = <<[chunk_count |-> n, compression |-> "RLE", width |-> 1,
                         blocks |-> "ScanLines", line_order |-> "Increasing"]>>
         /\ \E input \in OrdersOf([k \in 1..n |-> k - 1]), fails_at \in 0..n :
              blocks_writer = [kind |-> "sorting", input |-> input, next |-> 1,
                               passed |-> <<>>, fails_at |-> fails_at, result |-> NoResult,
                               sorted |-> SortedBlocksWriter_new(n, headers)]
    /\ phase = "blocks"
    /\ writer = NoWriter
    /\ file = <<>>
    /\ written = <<>>
    /\ call = NoCall
    /\ reader = NoReader
    /\ consumer = NoConsumer
    /\ emitted = <<>>
    /\ blocks = <<>>
    /\ pool = NoPool
    /\ progress_writer = NoProgressWriter
    /\ pure = NoPure

\* write_or_stash_chunk is called with the next index and its chunk
WriteOrStashChunk ==
    /\ phase = "blocks" /\ blocks_writer.kind = "sorting"
    /\ blocks_writer.next <= Len(blocks_writer.input)
    /\ LET chunk_index == blocks_writer.input[blocks_writer.next]
           r == write_or_stash_loop(
                    [blocks_writer.sorted EXCEPT !.pending_chunks =
                         MapInsert(@, chunk_index, SortedChunk(chunk_index))],
                    blocks_writer.passed, blocks_writer.fails_at)
       IN  blocks_writer' = [blocks_writer EXCEPT
                               !.next = @ + 1,
                               !.sorted = r.sorted,
                               !.passed = r.passed,
                               !.result = r.result]
    /\ UNCHANGED <<headers, phase, writer, file, written, call, reader, consumer, emitted,
                   blocks, pool, progress_writer, pure>>

SpecSorted == InitSorted /\ [][WriteOrStashChunk]_vars

\* write_or_stash_chunk has been called once for every index
AllGiven == blocks_writer.next > Len(blocks_writer.input)

\* all buffered indices are greater than the next unwritten index, or equal to
\* it never
BufferedAhead ==
    \A k \in DOMAIN blocks_writer.sorted.pending_chunks :
        k > blocks_writer.sorted.unwritten_chunk_indices.start

\* the chunks passed to the closure are those of the indices 0, 1, 2, .. in order
PassedInOrder ==
    \A i \in 1..Len(blocks_writer.passed) : blocks_writer.passed[i] = SortedChunk(i - 1)

\* the closure has returned an error
ClosureFailed ==
    blocks_writer.fails_at \in 1..Len(blocks_writer.passed)

\* C36 as stated: after one call for every index the closure has been given
\* every chunk exactly once, the buffer is empty and no unwritten index remains;
\* at every point the buffered indices are greater than the next unwritten index
C36_NothingLost ==
    /\ BufferedAhead
    /\ AllGiven =>
        /\ Len(blocks_writer.passed) = Len(blocks_writer.input)
        /\ PassedInOrder
        /\ DOMAIN blocks_writer.sorted.pending_chunks = {}
        /\ blocks_writer.sorted.unwritten_chunk_indices.start
             = blocks_writer.sorted.unwritten_chunk_indices.end

\* C36, amended: the same provided every call of the closure returned Ok; once
\* the closure has returned an error, the chunk it was given has left the buffer,
\* the next unwritten index stays at that chunk, no further chunk is passed,
\* and the chunks given later stay in the buffer.  In both cases no chunk is
\* passed twice and the buffered indices are greater than the next unwritten one.
C36_NothingLostIfClosureOk ==
    /\ BufferedAhead
    /\ PassedInOrder
    /\ ~ClosureFailed =>
        /\ blocks_writer.sorted.unwritten_chunk_indices.start = Len(blocks_writer.passed)
        /\ AllGiven =>
            /\ Len(blocks_writer.passed) = Len(blocks_writer.input)
            /\ DOMAIN blocks_writer.sorted.pending_chunks = {}
            /\ blocks_writer.sorted.unwritten_chunk_indices.start
                 = blocks_writer.sorted.unwritten_chunk_indices.end
    /\ ClosureFailed =>
        /\ Len(blocks_writer.passed) = blocks_writer.fails_at
        /\ blocks_writer.sorted.unwritten_chunk_indices.start = blocks_writer.fails_at - 1
        /\ AllGiven =>
             DOMAIN blocks_writer.sorted.pending_chunks
               = blocks_writer.fails_at..(Len(blocks_writer.input) - 1)

\* four chunks were given in the order 3, 2, 1, 0 and the closure returned Ok
\* four times, all in the last call
C36_Witness ==
    /\ blocks_writer.kind = "sorting" /\ AllGiven /\ ~ClosureFailed
    /\ blocks_writer.input = <<3, 2, 1, 0>>
    /\ Len(blocks_writer.passed) = 4
    /\ blocks_writer.result = Ok


(***************************************************************************)
(* The fractions that an OnProgressChunksReader reports.                   *)
(***************************************************************************)
\* the fraction lies within [0, 1]
InUnitInterval(x) == F64Leq(F64_ZERO, x) /\ F64Leq(x, F64_ONE)

\* the item that the reader returned last is end-of-stream
EndOfStreamReported ==
    emitted # <<>> /\ emitted[Len(emitted)].item.kind = "None"

\* how often the reader has returned Invalid("end of file expected")
EndOfFileErrors ==
    Len(SelectSeq(emitted, LAMBDA e : e.item = SomeErr(Invalid("end of file expected"))))

\* C37: every fraction that an OnProgressChunksReader has reported lies within
\* [0, 1], at most expected_chunk_count items were emitted before each call of
\* the callback, and when the inner reader has reported end-of-stream the number
\* of items emitted is expected_chunk_count
C37_FractionInUnitInterval ==
    reader.on_progress =>
        /\ \A i \in 1..Len(reader.callback) : InUnitInterval(reader.callback[i])
        /\ reader.decoded_chunks <= expected_chunk_count(reader) + 1
        /\ EndOfStreamReported => reader.decoded_chunks = expected_chunk_count(reader)

\* the same for the readers that have not returned Invalid("end of file
\* expected") more than once, except that a reader without chunks reports 1.0 only
FractionInUnitIntervalUnlessEndOfFile ==
    (reader.on_progress /\ EndOfFileErrors <= 1) =>
        /\ \A i \in 1..Len(reader.callback) : InUnitInterval(reader.callback[i])
        /\ reader.decoded_chunks <= expected_chunk_count(reader) + 1
        /\ EndOfStreamReported => reader.decoded_chunks = expected_chunk_count(reader)

\* an OnProgressChunksReader has emitted all its chunks and reported end-of-stream
FractionAtEndOfStreamReached ==
    /\ reader.on_progress
    /\ EndOfStreamReported
    /\ reader.decoded_chunks >= 2
    /\ Len(reader.callback) = reader.decoded_chunks + 1


(***************************************************************************)
(* write_chunk for a chunk of any layer index.                             *)
(***************************************************************************)
\* the closure of write_chunks_with calls write_chunk with a chunk it has built
\* itself: the layer_index of the chunk is any number, a header index or not; a
\* panic unwinds write_chunks_with
WriteAnyChunk ==
    /\ phase = "writing"
    /\ \E index_in_header_increasing_y \in 0..MaxTotalChunks :
       \E b \in ValidBlocks(headers) : \E layer_index \in 0..MaxHeaders :
         LET chunk == [compress_to_chunk(b, headers) EXCEPT !.layer_index = layer_index]
             w == write_chunk(writer, file, index_in_header_increasing_y, chunk)
         IN  /\ writer' = w.writer
             /\ file' = w.sink
             /\ written' = IF w.result = Ok
                           THEN Append(written,
                                   [index |-> index_in_header_increasing_y, block |-> b,
                                    chunk |-> chunk, offset |-> writer.byte_position])
                           ELSE written
             /\ call' = [NoCall EXCEPT !.op = "write_chunk", !.layer = chunk.layer_index,
                                       !.index = index_in_header_increasing_y,
                                       !.result = w.result]
             /\ phase' = IF w.result.kind = "Panic" THEN "panicked" ELSE phase
    /\ UNCHANGED <<headers, reader, consumer, emitted, blocks>>
    /\ UNCHANGED added

SpecWriteAny == Init /\ [][WriteAnyChunk \/ CompleteMetaData]_vars

\* the step is a call of write_chunk that records and writes the chunk
RecordsAndWrites ==
    /\ call'.result = Ok
    /\ Len(written') = Len(written) + 1
    /\ writer'.chunk_indices_increasing_y[call'.layer + 1][call'.index + 1]
            = writer.byte_position
    /\ writer'.byte_position > writer.byte_position

\* the step is a call of write_chunk that returns an Invalid error and leaves the
\* writer and the bytes of the file as they were
RejectsUnchanged ==
    /\ call'.result.kind = "Invalid"
    /\ writer' = writer
    /\ file' = file
    /\ written' = written

\* C38: every call of write_chunk, for every chunk and index, including a chunk
\* whose layer_index is not a header index, either records and writes the chunk
\* or returns an Invalid error with the writer unchanged; none panics
C38_WriteChunkNeverPanics ==
    [][(phase = "writing" /\ call'.op = "write_chunk")
            => (RecordsAndWrites \/ RejectsUnchanged)]_vars

\* the same for the chunks whose layer_index is a header index
WriteChunkOfHeaderNeverPanics ==
    [][(phase = "writing" /\ call'.op = "write_chunk" /\ call'.layer < Len(headers))
            => (RecordsAndWrites \/ RejectsUnchanged)]_vars

\* write_chunk has rejected a chunk of a header after it has written another one
WriteChunkOfHeaderRejected ==
    /\ phase = "writing"
    /\ written # <<>>
    /\ call.op = "write_chunk"
    /\ call.layer < Len(headers)
    /\ call.result.kind = "Invalid"

====
